---- MODULE Spec2Model ----
(***************************************************************************)
(* A model of the worker's dependency-injection container                  *)
(* (worker/container/container.ts, worker/container/registry.ts), of the   *)
(* request flow that builds one container per request (worker/index.ts,    *)
(* worker/server.ts, worker/middleware/auth.ts), of the configuration     *)
(* composer with its settings bundles and mergeSettings (worker/config),   *)
(* of the feature-flag evaluator (worker/lib/feature-flags), and of the    *)
(* helpers of BaseService (worker/services/base.service.ts) with the error *)
(* handler (worker/middleware/errorHandler.ts).                            *)
(***************************************************************************)
EXTENDS Integers, Sequences, FiniteSets, TLC

VARIABLES
    containers,   \* heap of Container objects: [registry, context] references
    contexts,     \* heap of ServiceContext objects: [env, container, user]
    registries,   \* heap of ServiceRegistry objects: own properties by token
    objects,      \* heap of service instances built by `new constructor(container)`
    hist,         \* history: per registry and token, the resolves since its registration
    processEnv,   \* the raw environment the deployment hands to the worker
    appConfig,    \* what the latest createConfig(processEnv) call produced
    requests,     \* the requests in flight: where each handler stands
    mergeCall,    \* a mergeSettings call: its arguments and what it returned
    flags,        \* the flags map of a FeatureFlags evaluator, in insertion order
    flagCall,     \* the latest isEnabled call: its arguments and what it returned
    flagWrites,   \* how many setFlag and removeFlag calls the evaluator has had
    items,        \* the array a caller hands to the list helpers of a service
    serviceCall   \* the latest call of a BaseService helper and what it returned

vars ==
    <<containers, contexts, registries, objects, hist, processEnv, appConfig, requests,
      mergeCall, flags, flagCall, flagWrites, items, serviceCall>>

\* the calls of mergeSettings, the flags evaluator and the service helpers,
\* which the container, the composer and the request flow hand on without
\* calling into
helperVars == <<mergeCall, flags, flagCall, flagWrites, items, serviceCall>>

----------------------------------------------------------------------------
(* Bounds of the model *)

MaxContainers == 2   \* containers alive at once (the root and its withUser forks)
MaxObjects == 2      \* constructor invocations
MaxResolves == 2     \* counted resolves of one token since its registration
MaxRequests == 2     \* requests the worker handles concurrently
MaxFlagWrites == 1   \* setFlag and removeFlag calls on one evaluator

----------------------------------------------------------------------------
(* JavaScript values *)

UNDEFINED == [tag |-> "undefined"]
NULL == [tag |-> "null"]
ObjectRef(n) == [tag |-> "object", id |-> n]
Handle(name) == [tag |-> "value", name |-> name]

NoUser == "undefined"
Users == {"alice", "bob"}

\* worker/container/tokens.ts, plus the token the feature guide registers and
\* a name every object literal inherits from Object.prototype
SERVICE_TOKENS ==
    [USER_SERVICE |-> "userService", DATABASE |-> "database",
     CONFIG |-> "config", FEATURE_FLAGS |-> "featureFlags"]
Tokens ==
    {"userService", "database", "config", "featureFlags", "PostService", "toString"}
InheritedTokens == {"toString"}
\* the tokens the explored calls register, and the tokens they query
FreeTokens == {"PostService"}
CountedTokens == {"PostService"}
QueryTokens == {"userService", "database", "PostService", "toString"}

----------------------------------------------------------------------------
(* RawEnvironment: strings the deployment supplies, and Zod's parse of them *)

Str(s) == [tag |-> "string", s |-> s]
Num(n) == [tag |-> "number", n |-> n]

\* the secrets the model draws BETTER_AUTH_SECRET from, with their lengths
SecretEmpty == ""
Secret31 == "0123456789abcdef0123456789abcde"
Secret32 == "0123456789abcdef0123456789abcdef"
StringLength(s) ==
    CASE s = SecretEmpty -> 0
      [] s = Secret31 -> 31
      [] s = Secret32 -> 32

ValidUrl == "https://app.example.com"
MalformedUrl == "not a url"
\* z.string().url(): the WHATWG URL parser accepts the text
IsUrl(s) == s = ValidUrl

\* z.coerce.number(): Number(input), and NaN is rejected
CoerceNumber(v) ==
    CASE v = Str("587") -> [ok |-> TRUE, value |-> Num(587)]
      [] v = Str("abc") -> [ok |-> FALSE, value |-> UNDEFINED]

\* JavaScript truthiness of an optional string
Truthy(v) == v # UNDEFINED /\ v # NULL /\ v # Str("")

EnvKeys ==
    {"DB", "NODE_ENV", "DATABASE_URL", "BETTER_AUTH_SECRET", "BETTER_AUTH_URL",
     "GITHUB_CLIENT_ID", "GITHUB_CLIENT_SECRET", "GOOGLE_CLIENT_ID",
     "GOOGLE_CLIENT_SECRET", "SMTP_HOST", "SMTP_PORT", "SMTP_USER", "SMTP_PASS",
     "API_KEY", "WEBHOOK_SECRET", "REDIS_URL", "SENTRY_DSN"}

\* EnvironmentSchema.parse({})
EmptyEnv == [k \in EnvKeys |-> UNDEFINED]
DefaultEnv == [EmptyEnv EXCEPT !["NODE_ENV"] = Str("development")]

Tiers == {"development", "staging", "production"}

\* the issues EnvironmentSchema.parse(env) raises
SchemaIssues(env) ==
    {k \in EnvKeys :
        CASE k = "NODE_ENV" ->
                env[k] # UNDEFINED /\ env[k] \notin {Str(t) : t \in Tiers}
          [] k = "BETTER_AUTH_SECRET" ->
                env[k] # UNDEFINED /\ StringLength(env[k].s) < 32
          [] k = "BETTER_AUTH_URL" ->
                env[k] # UNDEFINED /\ ~IsUrl(env[k].s)
          [] k = "SMTP_PORT" ->
                env[k] # UNDEFINED /\ ~CoerceNumber(env[k]).ok
          [] OTHER -> FALSE}

\* the data EnvironmentSchema.parse(env) returns when there is no issue
SchemaData(env) ==
    [k \in EnvKeys |->
        CASE k = "NODE_ENV" ->
                IF env[k] = UNDEFINED THEN Str("development") ELSE env[k]
          [] k = "SMTP_PORT" ->
                IF env[k] = UNDEFINED THEN UNDEFINED ELSE CoerceNumber(env[k]).value
          [] OTHER -> env[k]]

Err(name, token) == [name |-> name, token |-> token]
NoError == Err("none", "")
Return(v) == [outcome |-> "return", value |-> v, error |-> NoError]
Throw(e) == [outcome |-> "throw", value |-> UNDEFINED, error |-> Err(e, "")]

\* the mutant of validateEnvironment: the fallback to the defaults is taken in
\* every tier
validateEnvironmentLenient(env) ==
    IF SchemaIssues(env) = {} THEN Return(SchemaData(env)) ELSE Return(DefaultEnv)

\* validateEnvironment(env)
validateEnvironment(env) ==
    IF SchemaIssues(env) = {} THEN Return(SchemaData(env))
    ELSE IF env["NODE_ENV"] = Str("development") THEN Return(DefaultEnv)
    ELSE Throw("Environment validation failed")

\* the mutant of validateProductionEnvironment: the secret is not looked at
validateProductionEnvironmentSkipped(env) ==
    Return(IF env["NODE_ENV"] = Str("production") /\ ~Truthy(env["DB"])
           THEN Str("warn: No DB binding") ELSE UNDEFINED)

\* validateProductionEnvironment(env): the outcome, and whether it warned
validateProductionEnvironment(env) ==
    IF env["NODE_ENV"] = Str("production")
    THEN IF ~Truthy(env["BETTER_AUTH_SECRET"])
         THEN Throw("BETTER_AUTH_SECRET is required in production")
         ELSE IF StringLength(env["BETTER_AUTH_SECRET"].s) < 32
         THEN Throw("BETTER_AUTH_SECRET must be at least 32 characters in production")
         ELSE Return(IF ~Truthy(env["DB"]) THEN Str("warn: No DB binding") ELSE UNDEFINED)
    ELSE Return(UNDEFINED)

----------------------------------------------------------------------------
(* Tiered settings table: developmentSettings, stagingSettings,            *)
(* productionSettings and getAppSettings                                   *)

developmentSettings ==
    [app |-> [name |-> "Modern Template", version |-> "1.0.0", environment |-> "development"],
     database |-> [maxConnections |-> 5, queryTimeout |-> 10000,
                   enableLogging |-> TRUE, retryAttempts |-> 3],
     auth |-> [sessionDuration |-> 24 * 60 * 60 * 1000, tokenExpiry |-> 15 * 60 * 1000,
               requireEmailVerification |-> FALSE,
               allowedDomains |-> <<"localhost", "127.0.0.1">>],
     features |-> [registration |-> TRUE, oauth |-> FALSE, emailVerification |-> FALSE,
                   maintenanceMode |-> TRUE, betaFeatures |-> TRUE],
     rateLimit |-> [requests |-> 1000, windowMs |-> 60000,
                    skipSuccessfulRequests |-> FALSE, skipFailedRequests |-> FALSE],
     logging |-> [level |-> "debug", enableRequestLogging |-> TRUE,
                  enableErrorTracking |-> TRUE, maxLogSize |-> 1024 * 1024],
     email |-> [from |-> "dev@yourapp.com", replyTo |-> "dev@yourapp.com",
                templates |-> [welcome |-> "Welcome to our app (Dev)",
                               passwordReset |-> "Password reset (Dev)",
                               emailVerification |-> "Verify your email (Dev)"]],
     performance |-> [enableCaching |-> FALSE, cacheTimeout |-> 300000,
                      enableCompression |-> FALSE],
     security |-> [corsOrigins |-> <<"http://localhost:5173", "http://localhost:3000">>,
                   allowedHosts |-> <<"localhost", "127.0.0.1">>,
                   enableCSP |-> FALSE, rateLimitStrict |-> FALSE],
     api |-> [openapi |->
            [version |-> "1.0.0",
             title |-> "Fullstack Template API",
             description |-> "A comprehensive API built with Hono, featuring RPC type safety and OpenAPI documentation",
             contact |-> [name |-> "API Support", email |-> "dev@yourapp.com"],
             license |-> [name |-> "MIT", url |-> "https://opensource.org/licenses/MIT"],
             servers |-> <<[url |-> "/", description |-> "Development server"],
                          [url |-> "http://localhost:5173", description |-> "Local development server"]>>,
             tags |-> <<[name |-> "Users", description |-> "User profile management operations"],
                   [name |-> "Authentication", description |-> "User authentication and authorization"],
                   [name |-> "System", description |-> "System health and utility endpoints"]>>]]]

stagingSettings ==
    [app |-> [name |-> "Modern Template", version |-> "1.0.0", environment |-> "staging"],
     database |-> [maxConnections |-> 10, queryTimeout |-> 20000,
                   enableLogging |-> TRUE, retryAttempts |-> 3],
     auth |-> [sessionDuration |-> 7 * 24 * 60 * 60 * 1000, tokenExpiry |-> 30 * 60 * 1000,
               requireEmailVerification |-> TRUE],
     features |-> [registration |-> TRUE, oauth |-> TRUE, emailVerification |-> TRUE,
                   maintenanceMode |-> FALSE, betaFeatures |-> TRUE],
     rateLimit |-> [requests |-> 500, windowMs |-> 60000,
                    skipSuccessfulRequests |-> TRUE, skipFailedRequests |-> FALSE],
     logging |-> [level |-> "info", enableRequestLogging |-> TRUE,
                  enableErrorTracking |-> TRUE, maxLogSize |-> 5 * 1024 * 1024],
     email |-> [from |-> "staging@yourapp.com", replyTo |-> "support@yourapp.com",
                templates |-> [welcome |-> "Welcome to our app",
                               passwordReset |-> "Password reset request",
                               emailVerification |-> "Verify your email address"]],
     performance |-> [enableCaching |-> TRUE, cacheTimeout |-> 600000,
                      enableCompression |-> TRUE],
     security |-> [corsOrigins |-> <<"https://staging.yourapp.com">>,
                   allowedHosts |-> <<"staging.yourapp.com">>,
                   enableCSP |-> TRUE, rateLimitStrict |-> TRUE],
     api |-> [openapi |->
            [version |-> "1.0.0",
             title |-> "Fullstack Template API",
             description |-> "A comprehensive API built with Hono, featuring RPC type safety and OpenAPI documentation",
             contact |-> [name |-> "API Support", email |-> "support@yourapp.com"],
             license |-> [name |-> "MIT", url |-> "https://opensource.org/licenses/MIT"],
             servers |-> <<[url |-> "https://staging.yourapp.com/api/v1", description |-> "Staging server"]>>,
             tags |-> <<[name |-> "Users", description |-> "User profile management operations"],
                   [name |-> "Authentication", description |-> "User authentication and authorization"],
                   [name |-> "System", description |-> "System health and utility endpoints"]>>]]]

productionSettings ==
    [app |-> [name |-> "Modern Template", version |-> "1.0.0", environment |-> "production"],
     database |-> [maxConnections |-> 20, queryTimeout |-> 30000,
                   enableLogging |-> FALSE, retryAttempts |-> 5],
     auth |-> [sessionDuration |-> 7 * 24 * 60 * 60 * 1000, tokenExpiry |-> 60 * 60 * 1000,
               requireEmailVerification |-> TRUE],
     features |-> [registration |-> TRUE, oauth |-> TRUE, emailVerification |-> TRUE,
                   maintenanceMode |-> FALSE, betaFeatures |-> FALSE],
     rateLimit |-> [requests |-> 100, windowMs |-> 60000,
                    skipSuccessfulRequests |-> TRUE, skipFailedRequests |-> FALSE],
     logging |-> [level |-> "warn", enableRequestLogging |-> FALSE,
                  enableErrorTracking |-> TRUE, maxLogSize |-> 10 * 1024 * 1024],
     email |-> [from |-> "noreply@yourapp.com", replyTo |-> "support@yourapp.com",
                templates |-> [welcome |-> "Welcome to our app",
                               passwordReset |-> "Password reset request",
                               emailVerification |-> "Verify your email address"]],
     performance |-> [enableCaching |-> TRUE, cacheTimeout |-> 3600000,
                      enableCompression |-> TRUE],
     security |-> [corsOrigins |-> <<"https://yourapp.com", "https://www.yourapp.com">>,
                   allowedHosts |-> <<"yourapp.com", "www.yourapp.com">>,
                   enableCSP |-> TRUE, rateLimitStrict |-> TRUE],
     api |-> [openapi |->
            [version |-> "1.0.0",
             title |-> "Fullstack Template API",
             description |-> "A comprehensive API built with Hono, featuring RPC type safety and OpenAPI documentation",
             contact |-> [name |-> "API Support", email |-> "support@yourapp.com"],
             license |-> [name |-> "MIT", url |-> "https://opensource.org/licenses/MIT"],
             servers |-> <<[url |-> "https://yourapp.com", description |-> "Production server"]>>,
             tags |-> <<[name |-> "Users", description |-> "User profile management operations"],
                   [name |-> "Authentication", description |-> "User authentication and authorization"],
                   [name |-> "System", description |-> "System health and utility endpoints"]>>]]]

\* the mutant of getAppSettings: the staging case falls through to production
getAppSettingsStagingAsProduction(environment) ==
    CASE environment = "production" -> productionSettings
      [] environment = "staging" -> productionSettings
      [] OTHER -> developmentSettings

\* getAppSettings(environment = 'development')
getAppSettings(environment) ==
    CASE environment = "production" -> productionSettings
      [] environment = "staging" -> stagingSettings
      [] OTHER -> developmentSettings

----------------------------------------------------------------------------
(* Config composer: createConfig(env) *)

\* { ...a, ...b }: the fields of a, then those of b over them
Spread(a, b) ==
    [k \in DOMAIN a \cup DOMAIN b |-> IF k \in DOMAIN b THEN b[k] ELSE a[k]]

\* an object without fields; spreading undefined adds nothing either
NoFields == [k \in {} |-> UNDEFINED]

\* o.k or o?.k as the operand of a spread: no fields when the member is absent
Member(o, k) == IF k \in DOMAIN o THEN o[k] ELSE NoFields

\* a merge that stops at the groups: an overridden group replaces the base's
mergeSettingsShallow(baseSettings, overrides) == Spread(baseSettings, overrides)

\* mergeSettings(baseSettings, overrides): every group is rebuilt from the
\* base's group with the override's over it; email.templates and api.openapi
\* (with its contact and license) are merged one level further down, and
\* servers and tags are the override's array when it gives one (an array is
\* truthy even when empty), otherwise the base's
mergeSettings(baseSettings, overrides) ==
    LET group(g) == Spread(baseSettings[g], Member(overrides, g))
        email == Member(overrides, "email")
        api == Member(overrides, "api")
        openapi == Member(api, "openapi")
        baseOpenapi == baseSettings.api.openapi
        array(k) == IF k \in DOMAIN openapi THEN openapi[k] ELSE baseOpenapi[k]
    IN  Spread(Spread(baseSettings, overrides),
               [app |-> group("app"),
                database |-> group("database"),
                auth |-> group("auth"),
                features |-> group("features"),
                rateLimit |-> group("rateLimit"),
                logging |-> group("logging"),
                email |->
                    Spread(group("email"),
                           [templates |-> Spread(baseSettings.email.templates,
                                                 Member(email, "templates"))]),
                performance |-> group("performance"),
                security |-> group("security"),
                api |->
                    Spread(group("api"),
                           [openapi |->
                               Spread(Spread(baseOpenapi, openapi),
                                      [contact |-> Spread(baseOpenapi.contact,
                                                          Member(openapi, "contact")),
                                       license |-> Spread(baseOpenapi.license,
                                                          Member(openapi, "license")),
                                       servers |-> array("servers"),
                                       tags |-> array("tags")])])])

\* the AppConfig literal createConfig returns
ComposeConfig(environment, appSettings) ==
    [app |-> appSettings.app,
     database |->
        [url |-> environment["DATABASE_URL"],
         maxConnections |-> appSettings.database.maxConnections,
         queryTimeout |-> appSettings.database.queryTimeout,
         enableLogging |-> appSettings.database.enableLogging,
         retryAttempts |-> appSettings.database.retryAttempts],
     auth |->
        [secret |-> environment["BETTER_AUTH_SECRET"],
         baseUrl |-> environment["BETTER_AUTH_URL"],
         sessionDuration |-> appSettings.auth.sessionDuration,
         tokenExpiry |-> appSettings.auth.tokenExpiry,
         requireEmailVerification |-> appSettings.auth.requireEmailVerification,
         oauth |->
            [github |-> [clientId |-> environment["GITHUB_CLIENT_ID"],
                         clientSecret |-> environment["GITHUB_CLIENT_SECRET"]],
             google |-> [clientId |-> environment["GOOGLE_CLIENT_ID"],
                         clientSecret |-> environment["GOOGLE_CLIENT_SECRET"]]]],
     email |->
        [smtp |->
            IF Truthy(environment["SMTP_HOST"])
            THEN [tag |-> "smtp",
                  host |-> environment["SMTP_HOST"],
                  port |-> environment["SMTP_PORT"],
                  user |-> environment["SMTP_USER"],
                  pass |-> environment["SMTP_PASS"]]
            ELSE UNDEFINED,
         from |-> appSettings.email.from,
         replyTo |-> appSettings.email.replyTo,
         templates |-> appSettings.email.templates],
     features |-> appSettings.features,
     rateLimit |-> appSettings.rateLimit,
     logging |-> appSettings.logging,
     performance |-> appSettings.performance,
     security |-> appSettings.security,
     api |-> appSettings.api,
     external |->
        [apiKey |-> environment["API_KEY"],
         webhookSecret |-> environment["WEBHOOK_SECRET"],
         sentryDsn |-> environment["SENTRY_DSN"],
         redisUrl |-> environment["REDIS_URL"]]]

\* the mutant of createConfig: query logging is switched by the presence of
\* DATABASE_URL
createConfigLoggingByUrl(env) ==
    LET validated == validateEnvironment(env) IN
    IF validated.outcome = "throw" THEN validated
    ELSE
        LET environment == validated.value
            appSettings == getAppSettings(environment["NODE_ENV"].s)
            production ==
                IF environment["NODE_ENV"] = Str("production")
                THEN validateProductionEnvironment(environment)
                ELSE Return(UNDEFINED)
        IN  IF production.outcome = "throw" THEN production
            ELSE Return([ComposeConfig(environment, appSettings) EXCEPT
                            !.database.enableLogging =
                                ~Truthy(environment["DATABASE_URL"])])

\* createConfig(env): validate, select the bundle, run the production check,
\* compose
createConfig(env) ==
    LET validated == validateEnvironment(env) IN
    IF validated.outcome = "throw" THEN validated
    ELSE
        LET environment == validated.value
            appSettings == getAppSettings(environment["NODE_ENV"].s)
            production ==
                IF environment["NODE_ENV"] = Str("production")
                THEN validateProductionEnvironment(environment)
                ELSE Return(UNDEFINED)
        IN  IF production.outcome = "throw" THEN production
            ELSE Return(ComposeConfig(environment, appSettings))

----------------------------------------------------------------------------
(* ServiceRegistry: `private registry: ServiceRegistry = {}` *)

Absent == [kind |-> "absent"]
EmptyRegistry == [t \in Tokens |-> Absent]

\* a member inherited from Object.prototype: a function, so truthy, with no
\* `singleton` and no `instance`, and whose `constructor` is Function
InheritedMember == [kind |-> "inherited"]

ClassCtor(name) == [callable |-> "class", name |-> name]
ArrowCtor == [callable |-> "arrow"]

\* this.registry[token]
Lookup(registry, token) ==
    IF registry[token] # Absent THEN registry[token]
    ELSE IF token \in InheritedTokens THEN InheritedMember
    ELSE Absent

\* token in this.registry
InRegistry(registry, token) ==
    registry[token] # Absent \/ token \in InheritedTokens

RegistrationInstance(r) == IF r.kind = "own" THEN r.instance ELSE UNDEFINED
RegistrationSingleton(r) == r.kind = "own" /\ r.singleton

----------------------------------------------------------------------------
(* The store the Container methods work on *)

Store ==
    [containers |-> containers, contexts |-> contexts,
     registries |-> registries, objects |-> objects]

RegistryOf(s, c) == s.registries[s.containers[c].registry]
ContextOf(s, c) == s.contexts[s.containers[c].context]

\* constructor(env, user): this.context = { env, container: this, user }
ContainerNew(s, env, user) ==
    LET id == Len(s.containers) + 1
        ctx == Len(s.contexts) + 1
        reg == Len(s.registries) + 1
    IN  [s EXCEPT
            !.contexts = Append(@, [env |-> env, container |-> id, user |-> user]),
            !.registries = Append(@, EmptyRegistry),
            !.containers = Append(@, [registry |-> reg, context |-> ctx])]

\* the mutant of WithUserOp: the fork gets a copy of the registrations
WithUserCopy(s, c, user) ==
    LET s1 == ContainerNew(s, ContextOf(s, c).env, user)
        d == Len(s1.containers)
    IN  [s1 EXCEPT !.registries[s1.containers[d].registry] = RegistryOf(s, c)]

\* the mutant of WithUserOp: the fork reuses the parent's context object
WithUserSharedContext(s, c, user) ==
    LET s1 == ContainerNew(s, ContextOf(s, c).env, user)
        d == Len(s1.containers)
    IN  [s1 EXCEPT !.containers[d].registry = s.containers[c].registry,
                   !.containers[d].context = s.containers[c].context,
                   !.contexts[s.containers[c].context].user = user]

\* withUser(user): a new container on the same env, sharing this.registry
WithUserOp(s, c, user) ==
    LET s1 == ContainerNew(s, ContextOf(s, c).env, user)
        d == Len(s1.containers)
    IN  [s1 EXCEPT !.containers[d].registry = s.containers[c].registry]

\* the mutant of SetUserOp: the identity goes to a fork, not to this container
SetUserFork(s, c, user) == WithUserOp(s, c, user)

\* the mutant of SetUserOp: the services built so far follow the new identity
SetUserRebinding(s, c, user) ==
    [s EXCEPT !.contexts[s.containers[c].context].user = user,
              !.objects = [i \in DOMAIN @ |-> [@[i] EXCEPT !.currentUser = user]]]

\* setUser(user): this.context.user = user
SetUserOp(s, c, user) ==
    [s EXCEPT !.contexts[s.containers[c].context].user = user]

\* options.singleton ?? true
NoOptions == [singleton |-> "omitted"]
SingletonOption(options) ==
    IF options.singleton = "omitted" THEN TRUE ELSE options.singleton = "true"

\* the mutant of RegisterOp: a registered token keeps its registration
RegisterOnce(s, c, token, ctor, options) ==
    IF RegistryOf(s, c)[token] # Absent THEN s
    ELSE [s EXCEPT !.registries[s.containers[c].registry][token] =
            [kind |-> "own", constructor |-> ctor,
             singleton |-> SingletonOption(options), instance |-> UNDEFINED]]

\* register(token, constructor, options)
RegisterOp(s, c, token, ctor, options) ==
    [s EXCEPT !.registries[s.containers[c].registry][token] =
        [kind |-> "own", constructor |-> ctor,
         singleton |-> SingletonOption(options), instance |-> UNDEFINED]]

\* registerValue(token, value)
RegisterValueOp(s, c, token, value) ==
    [s EXCEPT !.registries[s.containers[c].registry][token] =
        [kind |-> "own", constructor |-> ArrowCtor,
         singleton |-> TRUE, instance |-> value]]

\* has(token)
HasOp(s, c, token) == InRegistry(RegistryOf(s, c), token)

\* getContext()
GetContextOp(s, c) == ContextOf(s, c)

----------------------------------------------------------------------------
(* resolve(token) and the constructors it runs *)

Outcome(outcome, value, error, store, invoked) ==
    [outcome |-> outcome, value |-> value, error |-> error,
     store |-> store, invoked |-> invoked]

NotRegistered(token) == Err("Service not registered", token)

\* resolve up to the construction: the unregistered-token error and the two
\* returns of an instance that is not undefined
ResolveLookup(s, c, token) ==
    LET registration == Lookup(RegistryOf(s, c), token) IN
    IF registration = Absent
    THEN Outcome("throw", UNDEFINED, NotRegistered(token), s, 0)
    ELSE IF RegistrationSingleton(registration)
            /\ RegistrationInstance(registration) # UNDEFINED
    THEN Outcome("return", RegistrationInstance(registration), NoError, s, 0)
    ELSE IF RegistrationInstance(registration) # UNDEFINED
    THEN Outcome("return", RegistrationInstance(registration), NoError, s, 0)
    ELSE Outcome("construct", UNDEFINED, NoError, s, 0)

\* getDatabase / getConfig / getFeatureFlags called from a constructor that
\* resolve is running: a dependency that would itself be constructed is an
\* arrow function or an inherited Function (not constructible), or a class
\* whose own constructor resolves the same token again without end
ResolveDependency(s, c, token) ==
    LET r == ResolveLookup(s, c, token)
        registration == Lookup(RegistryOf(s, c), token)
    IN  IF r.outcome # "construct" THEN r
        ELSE IF registration.kind = "inherited"
        THEN Outcome("throw", UNDEFINED, Err("Function constructor", token), s, 0)
        ELSE IF registration.constructor.callable = "arrow"
        THEN Outcome("throw", UNDEFINED, Err("TypeError: not a constructor", token), s, 0)
        ELSE Outcome("throw", UNDEFINED, Err("RangeError: call stack", token), s, 1)

\* BaseService.constructor(container), which UserService and the guide's
\* services run through super(container)
BaseServiceConstructor(s, c, class) ==
    LET db == ResolveDependency(s, c, SERVICE_TOKENS.DATABASE)
        config == ResolveDependency(s, c, SERVICE_TOKENS.CONFIG)
        featureFlags == ResolveDependency(s, c, SERVICE_TOKENS.FEATURE_FLAGS)
    IN  IF db.outcome = "throw" THEN [db EXCEPT !.invoked = 1]
        ELSE IF config.outcome = "throw" THEN [config EXCEPT !.invoked = 1]
        ELSE IF featureFlags.outcome = "throw" THEN [featureFlags EXCEPT !.invoked = 1]
        ELSE LET instance ==
                    [class |-> class, db |-> db.value,
                     currentUser |-> GetContextOp(s, c).user]
             IN  Outcome("return", ObjectRef(Len(s.objects) + 1), NoError,
                         [s EXCEPT !.objects = Append(@, instance)], 1)

\* new registration.constructor(this)
NewInstance(s, c, registration, token) ==
    IF registration.kind = "inherited"
    THEN Outcome("throw", UNDEFINED, Err("Function constructor", token), s, 0)
    ELSE IF registration.constructor.callable = "arrow"
    THEN Outcome("throw", UNDEFINED, Err("TypeError: not a constructor", token), s, 0)
    ELSE BaseServiceConstructor(s, c, registration.constructor.name)

\* the mutant of CacheSingleton: the instance is never stored
CacheNever(s, c, token, registration, instance) == s

\* if (registration.singleton) registration.instance = instance
CacheSingleton(s, c, token, registration, instance) ==
    IF RegistrationSingleton(registration)
    THEN [s EXCEPT !.registries[s.containers[c].registry][token].instance = instance]
    ELSE s

\* resolve(token)
ResolveOp(s, c, token) ==
    LET r == ResolveLookup(s, c, token)
        registration == Lookup(RegistryOf(s, c), token)
    IN  IF r.outcome # "construct" THEN r
        ELSE LET made == NewInstance(s, c, registration, token) IN
             IF made.outcome = "throw" THEN made
             ELSE [made EXCEPT
                     !.store = CacheSingleton(made.store, c, token, registration, made.value)]

----------------------------------------------------------------------------
(* createContainer(env), worker/container/registry.ts *)

D1 == Handle("D1")
WorkerEnv(tier, db) ==
    [EmptyEnv EXCEPT !["NODE_ENV"] = Str(tier), !["DB"] = db]

\* the worker environment the container calls are explored from: no D1
\* binding, so that createContainer registers null as the database
Envs == {WorkerEnv("development", UNDEFINED)}

EmptyStore == [containers |-> <<>>, contexts |-> <<>>, registries |-> <<>>, objects |-> <<>>]

createContainer(s, env) ==
    LET config == createConfig(env) IN
    IF config.outcome = "throw"
    THEN Outcome("throw", UNDEFINED, config.error, s, 0)
    ELSE
        LET s0 == ContainerNew(s, env, NoUser)
            container == Len(s0.containers)
            s1 == RegisterValueOp(s0, container, SERVICE_TOKENS.CONFIG, Handle("config"))
            s2 == RegisterValueOp(s1, container, SERVICE_TOKENS.FEATURE_FLAGS,
                                  Handle("featureFlags"))
            database == IF Truthy(env["DB"]) THEN Handle("drizzle") ELSE NULL
            s3 == RegisterValueOp(s2, container, SERVICE_TOKENS.DATABASE, database)
            s4 == RegisterOp(s3, container, SERVICE_TOKENS.USER_SERVICE,
                             ClassCtor("UserService"), [singleton |-> "true"])
        IN  Outcome("return", [tag |-> "container", id |-> container], NoError, s4, 0)

----------------------------------------------------------------------------
(* The container calls a caller can make, as actions *)

\* history of one token of one registry since its latest registration: the
\* constructor invocations, the resolves that returned and what they returned;
\* and whether that registration replaced one that held an instance
History(replaced) ==
    [invoked |-> 0, returns |-> 0, results |-> {}, replaced |-> replaced]
NoHistory == History(FALSE)
Replaces(c, token) ==
    History(RegistrationInstance(RegistryOf(Store, c)[token]) # UNDEFINED)
HistoryFor(rs, h) ==
    [i \in 1..Len(rs) |->
        IF i <= Len(h) THEN h[i] ELSE [t \in CountedTokens |-> NoHistory]]

SetStore(s) ==
    /\ contexts' = s.contexts
    /\ registries' = s.registries
    /\ objects' = s.objects
    /\ containers' = s.containers

\* the container calls run on a container already built: no createConfig call
\* and no request is part of them
NotCalled == [outcome |-> "not called", value |-> UNDEFINED, error |-> NoError]
RequestIds == 1..MaxRequests
NoRequest ==
    [pc |-> "idle", session |-> NoUser, container |-> 0, user |-> NoUser,
     queried |-> NoUser, status |-> "none", body |-> NoUser]
NoRequests == [r \in RequestIds |-> NoRequest]
NoMerge == [called |-> FALSE]
NoFlagCall == [called |-> FALSE]
FlagsIdle == flags = << >> /\ flagCall = NoFlagCall /\ flagWrites = 0
NoServiceCall == [called |-> FALSE]
ServiceIdle == items = << >> /\ serviceCall = NoServiceCall
HelpersIdle == mergeCall = NoMerge /\ FlagsIdle /\ ServiceIdle
ContainerCall(s) ==
    SetStore(s) /\ UNCHANGED <<processEnv, appConfig, requests, helperVars>>

Classes == {"PostService"}
Options == {NoOptions, [singleton |-> "true"], [singleton |-> "false"]}
Values == {NULL, UNDEFINED, Handle("value")}

Init ==
    \E env \in Envs :
        LET r == createContainer(EmptyStore, env) IN
        /\ containers = r.store.containers
        /\ contexts = r.store.contexts
        /\ registries = r.store.registries
        /\ objects = r.store.objects
        /\ hist = HistoryFor(r.store.registries, <<>>)
        /\ processEnv = env
        /\ appConfig = NotCalled
        /\ requests = NoRequests
        /\ HelpersIdle

Live == 1..Len(containers)
ContainerIds == 1..MaxContainers

Register(c, token, class, options) ==
    LET s == RegisterOp(Store, c, token, ClassCtor(class), options) IN
    /\ c \in Live
    /\ ContainerCall(s)
    /\ hist' = [hist EXCEPT ![containers[c].registry][token] = Replaces(c, token)]

RegisterValue(c, token, value) ==
    LET s == RegisterValueOp(Store, c, token, value) IN
    /\ c \in Live
    /\ ContainerCall(s)
    /\ hist' = [hist EXCEPT ![containers[c].registry][token] = Replaces(c, token)]

Resolve(c, token) ==
    LET r == ResolveOp(Store, c, token)
        reg == containers[c].registry
    IN  /\ c \in Live
        /\ Len(r.store.objects) <= MaxObjects
        /\ token \in CountedTokens => hist[reg][token].returns < MaxResolves
        /\ ContainerCall(r.store)
        /\ hist' =
            IF token \notin CountedTokens THEN hist
            ELSE [hist EXCEPT ![reg][token] =
                    IF r.outcome = "return"
                    THEN [@ EXCEPT !.invoked = @ + r.invoked, !.returns = @ + 1,
                                   !.results = @ \cup {r.value}]
                    ELSE [@ EXCEPT !.invoked = @ + r.invoked]]

\* has(token) answers and writes nothing
Has(c, token) ==
    /\ c \in Live
    /\ HasOp(Store, c, token) \in BOOLEAN
    /\ UNCHANGED vars

WithUser(c, user) ==
    LET s == WithUserOp(Store, c, user) IN
    /\ c \in Live
    /\ Len(containers) < MaxContainers
    /\ ContainerCall(s)
    /\ hist' = HistoryFor(s.registries, hist)

SetUser(c, user) ==
    LET s == SetUserOp(Store, c, user) IN
    /\ c \in Live
    /\ ContainerCall(s)
    /\ UNCHANGED hist

\* getContext() returns this.context and writes nothing
GetContext(c) ==
    /\ c \in Live
    /\ GetContextOp(Store, c).container = c
    /\ UNCHANGED vars

Next ==
    \E c \in ContainerIds :
        \/ \E token \in FreeTokens, class \in Classes, options \in Options :
                Register(c, token, class, options)
        \/ \E token \in FreeTokens, value \in Values : RegisterValue(c, token, value)
        \/ \E token \in QueryTokens : Resolve(c, token)
        \/ \E token \in QueryTokens : Has(c, token)
        \/ \E user \in Users : WithUser(c, user)
        \/ \E user \in Users : SetUser(c, user)
        \/ GetContext(c)

Spec == Init /\ [][Next]_vars

----------------------------------------------------------------------------
(* createConfig applied to the raw environments of a deployment *)

SmtpHost == "smtp.example.com"
DatabaseUrl == "file:./dev.db"

\* the raw environments explored: every combination of the values the schema
\* and the composer tell apart
RawEnvironments ==
    {[EmptyEnv EXCEPT !["NODE_ENV"] = tier, !["BETTER_AUTH_SECRET"] = secret,
                      !["BETTER_AUTH_URL"] = url, !["SMTP_HOST"] = host,
                      !["SMTP_PORT"] = port, !["DB"] = db, !["DATABASE_URL"] = dburl] :
        tier \in {UNDEFINED, Str("test")} \cup {Str(t) : t \in Tiers},
        secret \in {UNDEFINED, Str(SecretEmpty), Str(Secret31), Str(Secret32)},
        url \in {UNDEFINED, Str(ValidUrl), Str(MalformedUrl)},
        host \in {UNDEFINED, Str(""), Str(SmtpHost)},
        port \in {UNDEFINED, Str("587"), Str("abc")},
        db \in {UNDEFINED, D1},
        dburl \in {UNDEFINED, Str(DatabaseUrl)}}

InitConfig ==
    /\ processEnv \in RawEnvironments
    /\ appConfig = NotCalled
    /\ containers = <<>>
    /\ contexts = <<>>
    /\ registries = <<>>
    /\ objects = <<>>
    /\ hist = <<>>
    /\ requests = NoRequests
    /\ HelpersIdle

\* const config = createConfig(env)
CreateConfig ==
    /\ appConfig = NotCalled
    /\ appConfig' = createConfig(processEnv)
    /\ UNCHANGED <<containers, contexts, registries, objects, hist, processEnv, requests,
                   helperVars>>

NextConfig == CreateConfig

SpecConfig == InitConfig /\ [][NextConfig]_vars

----------------------------------------------------------------------------
(* The request flow: fetch -> createServer -> createContainer, then        *)
(* authMiddleware and GET /api/users/me on the container of that request.  *)
(* A handler runs until it awaits; at an await another request may run.    *)

\* the mutant of createServer: one container, built by the first request and
\* kept for the later ones
createServerShared(s, env) ==
    IF Len(s.containers) > 0
    THEN Outcome("return", [tag |-> "container", id |-> 1], NoError, s, 0)
    ELSE createContainer(s, env)

\* createServer(env): const container = createContainer(env), closed over by
\* the middleware and the routes of the app it returns
createServer(s, env) == createContainer(s, env)

\* getDatabase(container), getUserService(container)
getDatabase(s, c) == ResolveOp(s, c, SERVICE_TOKENS.DATABASE)
getUserService(s, c) == ResolveOp(s, c, SERVICE_TOKENS.USER_SERVICE)

\* BaseService.requireUser() on a service instance
requireUser(service) ==
    IF service.currentUser = NoUser
    THEN Throw("User authentication required")
    ELSE Return(service.currentUser)

\* the deployments the requests are explored on: a development worker with
\* its D1 binding, a staging worker without it, a production worker with its
\* secret, and three misconfigured ones (a malformed URL in staging, a short
\* secret and no secret in production)
Deployments ==
    {WorkerEnv("development", D1), WorkerEnv("staging", UNDEFINED),
     [WorkerEnv("production", D1) EXCEPT !["BETTER_AUTH_SECRET"] = Str(Secret32)],
     [WorkerEnv("staging", D1) EXCEPT !["BETTER_AUTH_URL"] = Str(MalformedUrl)],
     [WorkerEnv("production", D1) EXCEPT !["BETTER_AUTH_SECRET"] = Str(Secret31)],
     WorkerEnv("production", D1)}

InitRequests ==
    /\ processEnv \in Deployments
    /\ appConfig = NotCalled
    /\ containers = <<>>
    /\ contexts = <<>>
    /\ registries = <<>>
    /\ objects = <<>>
    /\ hist = <<>>
    /\ requests = NoRequests
    /\ HelpersIdle

Respond(r, status, body) ==
    requests' = [requests EXCEPT ![r].pc = "done", ![r].status = status, ![r].body = body]

RequestFrame == UNCHANGED <<hist, processEnv, appConfig, helperVars>>

\* fetch(request, env, ctx): createServer(env), then app.fetch(request) enters
\* authMiddleware for /api/users/me; `session` is the identity the request's
\* session cookie stands for, if any
Fetch(r, session) ==
    LET made == createServer(Store, processEnv) IN
    /\ requests[r].pc = "idle"
    /\ SetStore(made.store)
    /\ IF made.outcome = "throw"
       THEN requests' = [requests EXCEPT ![r].pc = "done", ![r].session = session,
                                         ![r].status = "threw", ![r].body = made.error.name]
       ELSE requests' = [requests EXCEPT ![r].pc = "auth", ![r].session = session,
                                         ![r].container = made.value.id]
    /\ RequestFrame

\* new UnauthorizedError(message)
UnauthorizedError(message) == [class |-> "UnauthorizedError", message |-> message]

\* the mutant of authMiddlewareCatch: whatever is caught is replaced
authMiddlewareCatchAll(error) == UnauthorizedError("Authentication failed")

\* the catch of authMiddleware: an UnauthorizedError is thrown on, any other
\* error is replaced
authMiddlewareCatch(error) ==
    IF error.class = "UnauthorizedError" THEN error
    ELSE UnauthorizedError("Authentication failed")

\* an error thrown inside the try of authMiddleware: the request fails with
\* what the catch throws
ThrowInAuth(r, error) ==
    LET thrown == authMiddlewareCatch(error) IN
    Respond(r, IF thrown.class = "UnauthorizedError" THEN "unauthorized" ELSE "error",
            thrown.message)

\* authMiddleware up to `await validateSession(...)`
AuthMiddleware(r) ==
    LET c == requests[r].container
        db == getDatabase(Store, c)
    IN  /\ requests[r].pc = "auth"
        /\ SetStore(db.store)
        /\ IF db.outcome = "throw"
           THEN ThrowInAuth(r, [class |-> "Error", message |-> db.error.name])
           ELSE IF ~Truthy(db.value)
           THEN ThrowInAuth(r, UnauthorizedError("Authentication service unavailable"))
           ELSE requests' = [requests EXCEPT ![r].pc = "validating"]
        /\ RequestFrame

\* validateSession resolves: the session's user, or null (no session, or an
\* error it caught); then c.set('user'), container.setUser(user), await next()
SessionValidated(r, user) ==
    LET c == requests[r].container IN
    /\ requests[r].pc = "validating"
    /\ user \in {requests[r].session, NoUser}
    /\ IF user = NoUser
       THEN /\ ThrowInAuth(r, UnauthorizedError("Invalid or expired session"))
            /\ UNCHANGED <<containers, contexts, registries, objects>>
       ELSE /\ SetStore(SetUserOp(Store, c, user))
            /\ requests' = [requests EXCEPT ![r].pc = "handler", ![r].user = user]
    /\ RequestFrame

\* GET /me: getUserService(container), userService.getMe() up to the await of
\* the database query
GetMe(r) ==
    LET c == requests[r].container
        resolved == getUserService(Store, c)
    IN  /\ requests[r].pc = "handler"
        /\ SetStore(resolved.store)
        /\ IF resolved.outcome = "throw"
           THEN Respond(r, "error", resolved.error.name)
           ELSE LET userService == resolved.store.objects[resolved.value.id]
                    currentUser == requireUser(userService)
                IN  IF ~Truthy(userService.db)
                    THEN Respond(r, "error", "Database not available")
                    ELSE IF currentUser.outcome = "throw"
                    THEN Respond(r, "error", currentUser.error.name)
                    ELSE requests' = [requests EXCEPT ![r].pc = "querying",
                                                      ![r].queried = currentUser.value]
        /\ RequestFrame

\* the query resolves: the row of the queried id, or none
QueryDone(r, found) ==
    /\ requests[r].pc = "querying"
    /\ IF found
       THEN Respond(r, "ok", requests[r].queried)
       ELSE Respond(r, "error", "NotFoundError")
    /\ UNCHANGED <<containers, contexts, registries, objects>>
    /\ RequestFrame

NextRequests ==
    \E r \in RequestIds :
        \/ \E session \in Users \cup {NoUser} : Fetch(r, session)
        \/ AuthMiddleware(r)
        \/ \E user \in Users \cup {NoUser} : SessionValidated(r, user)
        \/ GetMe(r)
        \/ \E found \in BOOLEAN : QueryDone(r, found)

SpecRequests == InitRequests /\ [][NextRequests]_vars

\* ---------------------------------------------------------------------------
\* mergeSettings on its own: a base bundle and a partial override
\* ---------------------------------------------------------------------------

\* partial overrides: each group absent or given in part
Overrides ==
    LET app == {NoFields, [app |-> [version |-> "2.0.0"]]}
        logging == {NoFields, [logging |-> [level |-> "warn"]]}
        features == {NoFields, [features |-> [oauth |-> TRUE, betaFeatures |-> FALSE]]}
        email ==
            {NoFields,
             [email |-> [from |-> "team@yourapp.com"]],
             [email |-> [templates |-> [welcome |-> "Hello"]]],
             [email |-> [replyTo |-> "help@yourapp.com",
                         templates |-> [passwordReset |-> "Reset",
                                        emailVerification |-> "Verify"]]]}
        api ==
            {NoFields,
             [api |-> [openapi |-> [title |-> "Merged API"]]],
             [api |-> [openapi |-> [contact |-> [email |-> "api@yourapp.com"]]]],
             [api |-> [openapi |-> [license |-> [name |-> "Apache-2.0"], servers |-> << >>]]],
             [api |-> [openapi |-> [version |-> "2.0.0",
                                    tags |-> <<[name |-> "Posts", description |-> "Posts"]>>]]]}
    IN  {Spread(a, Spread(l, Spread(f, Spread(e, p)))) :
            a \in app, l \in logging, f \in features, e \in email, p \in api}
Bundles == {developmentSettings, stagingSettings, productionSettings}

InitMerge ==
    \E baseSettings \in Bundles, overrides \in Overrides :
        /\ containers = <<>>
        /\ contexts = <<>>
        /\ registries = <<>>
        /\ objects = <<>>
        /\ hist = <<>>
        /\ processEnv = EmptyEnv
        /\ appConfig = NotCalled
        /\ requests = NoRequests
        /\ mergeCall = [called |-> FALSE, baseSettings |-> baseSettings,
                        overrides |-> overrides]
        /\ FlagsIdle
        /\ ServiceIdle

\* the call builds a new object out of spreads and assigns to neither argument
MergeSettings ==
    /\ ~mergeCall.called
    /\ mergeCall' = [called |-> TRUE,
                     given |-> [baseSettings |-> mergeCall.baseSettings,
                                overrides |-> mergeCall.overrides],
                     baseSettings |-> mergeCall.baseSettings,
                     overrides |-> mergeCall.overrides,
                     result |-> mergeSettings(mergeCall.baseSettings, mergeCall.overrides)]
    /\ UNCHANGED <<containers, contexts, registries, objects, hist, processEnv, appConfig,
                   requests, flags, flagCall, flagWrites, items, serviceCall>>

NextMerge == MergeSettings
SpecMerge == InitMerge /\ [][NextMerge]_vars

\* ---------------------------------------------------------------------------
\* Feature flags (unnamed/part_007)
\* ---------------------------------------------------------------------------

\* A string whose characters the evaluator looks at (a key, an id, an email,
\* a role, a rule's value) is the sequence of its characters.
\* seed.charCodeAt(i)
charCodeAt(c) ==
    LET Letters ==
            <<"a", "b", "c", "d", "e", "f", "g", "h", "i", "j", "k", "l", "m",
              "n", "o", "p", "q", "r", "s", "t", "u", "v", "w", "x", "y", "z">>
        Digits == <<"0", "1", "2", "3", "4", "5", "6", "7", "8", "9">>
        IndexOf(seq) == CHOOSE i \in DOMAIN seq : seq[i] = c
    IN  IF \E i \in DOMAIN Letters : Letters[i] = c THEN 96 + IndexOf(Letters)
        ELSE IF \E i \in DOMAIN Digits : Digits[i] = c THEN 47 + IndexOf(Digits)
        ELSE CASE c = "-" -> 45
               [] c = "." -> 46
               [] c = ":" -> 58
               [] c = "@" -> 64
               [] c = "_" -> 95

EmptyString == << >>
includes(s, t) == \E i \in 0..(Len(s) - Len(t)) : SubSeq(s, i + 1, i + Len(t)) = t
startsWith(s, t) == Len(t) <= Len(s) /\ SubSeq(s, 1, Len(t)) = t
endsWith(s, t) == Len(t) <= Len(s) /\ SubSeq(s, Len(s) - Len(t) + 1, Len(s)) = t

\* s.split('@')[1] || '': what stands between the first and the second '@'
SplitSecond(s) ==
    IF ~\E i \in DOMAIN s : s[i] = "@" THEN EmptyString
    ELSE LET first == CHOOSE i \in DOMAIN s : s[i] = "@" /\ \A j \in 1..(i - 1) : s[j] # "@"
             rest == SubSeq(s, first + 1, Len(s))
         IN  IF ~\E i \in DOMAIN rest : rest[i] = "@" THEN rest
             ELSE LET next == CHOOSE i \in DOMAIN rest :
                                rest[i] = "@" /\ \A j \in 1..(i - 1) : rest[j] # "@"
                  IN  SubSeq(rest, 1, next - 1)

\* a rule's value: string | string[]
StringValue(s) == [type |-> "string", text |-> s]
ArrayValue(a) == [type |-> "array", items |-> a]

\* a 32-bit integer as its two 16-bit words
Word == 2 ^ 16
Int32(hi, lo) == [hi |-> hi, lo |-> lo]
Int32s == [hi : 0..(Word - 1), lo : 0..(Word - 1)]

\* hash % 100 without Math.abs: the remainder has the sign of hash
SignedMod100(h) ==
    IF h.hi >= Word \div 2
    THEN 0 - (((((Word - h.hi) % 100) * (Word % 100)) - h.lo) % 100)
    ELSE (h.hi * Word + h.lo) % 100

\* Math.abs(hash) % 100; hash is negative when its top bit is set, and the
\* absolute value of -2^31 is 2^31
AbsMod100(h) ==
    IF h.hi >= Word \div 2
    THEN ((((Word - h.hi) % 100) * (Word % 100)) - h.lo) % 100
    ELSE (h.hi * Word + h.lo) % 100

\* hash = (hash << 5) - hash + char; hash = hash & hash
HashStep(hash, char) ==
    LET shifted == Int32((hash.hi * 32 + (hash.lo * 32) \div Word) % Word,
                         (hash.lo * 32) % Word)
        less == Int32((shifted.hi - hash.hi - (IF shifted.lo < hash.lo THEN 1 ELSE 0)) % Word,
                      (shifted.lo - hash.lo) % Word)
    IN  Int32((less.hi + (less.lo + char) \div Word) % Word, (less.lo + char) % Word)

\* the loop over the characters of seed from the i-th on; hash is a 32-bit
\* integer each time the loop body is entered
RECURSIVE HashFrom(_, _, _)
HashFrom(hash, seed, i) ==
    CASE hash \in Int32s ->
        IF i > Len(seed) THEN hash
        ELSE HashFrom(HashStep(hash, charCodeAt(seed[i])), seed, i + 1)

Anonymous == <<"a", "n", "o", "n", "y", "m", "o", "u", "s">>

\* a rollout that takes every caller in, whatever the percentage
shouldRolloutToEveryone(flagKey, user, percentage) == TRUE

\* shouldRolloutToUser(flagKey, user, percentage)
shouldRolloutToUser(flagKey, user, percentage) ==
    IF percentage >= 100 THEN TRUE
    ELSE IF percentage <= 0 THEN FALSE
    ELSE LET identifier == IF user = UNDEFINED \/ user.id = EmptyString
                           THEN Anonymous ELSE user.id
             seed == flagKey \o <<":">> \o identifier
             hash == HashFrom(Int32(0, 0), seed, 1)
         IN  AbsMod100(hash) < percentage

\* matchesValue(userValue, operator, ruleValue)
matchesValue(userValue, operator, ruleValue) ==
    CASE operator = "equals" -> ruleValue.type = "string" /\ userValue = ruleValue.text
      [] operator = "contains" ->
            ruleValue.type = "string" /\ includes(userValue, ruleValue.text)
      [] operator = "starts_with" ->
            ruleValue.type = "string" /\ startsWith(userValue, ruleValue.text)
      [] operator = "ends_with" ->
            ruleValue.type = "string" /\ endsWith(userValue, ruleValue.text)
      [] operator = "in" ->
            ruleValue.type = "array"
            /\ \E i \in DOMAIN ruleValue.items : ruleValue.items[i] = userValue
      [] OTHER -> FALSE

\* matchesUserRule(rule, user)
matchesUserRule(rule, user) ==
    CASE rule.type = "user_id" -> matchesValue(user.id, rule.operator, rule.value)
      [] rule.type = "email" -> matchesValue(user.email, rule.operator, rule.value)
      [] rule.type = "role" ->
            matchesValue(IF "role" \in DOMAIN user THEN user.role ELSE EmptyString,
                         rule.operator, rule.value)
      [] rule.type = "email_domain" ->
            matchesValue(SplitSecond(user.email), rule.operator, rule.value)
      [] OTHER -> FALSE

\* evaluateUserRules(rules, user): true at the first rule that matches, null
\* when none does
evaluateUserRules(rules, user) ==
    IF \E i \in DOMAIN rules : matchesUserRule(rules[i], user) THEN "true" ELSE "null"

\* the flags map, in insertion order
MapHas(m, key) == \E i \in DOMAIN m : m[i].key = key
MapGet(m, key) ==
    IF MapHas(m, key) THEN m[CHOOSE i \in DOMAIN m : m[i].key = key] ELSE UNDEFINED
\* a map that keeps the earlier entry of a key next to the new one
MapSetBeside(m, key, flag) == Append(m, flag)

MapSet(m, key, flag) ==
    IF MapHas(m, key)
    THEN [i \in DOMAIN m |-> IF m[i].key = key THEN flag ELSE m[i]]
    ELSE Append(m, flag)

MapDelete(m, key) == SelectSeq(m, LAMBDA f : f.key # key)

\* the decision of isEnabled once the flag has passed the switch and the
\* environment restriction
DecideForUser(flag, flagKey, user) ==
    IF /\ user # UNDEFINED
       /\ "userRules" \in DOMAIN flag
       /\ evaluateUserRules(flag.userRules, user) # "null"
    THEN TRUE
    ELSE IF "rolloutPercentage" \in DOMAIN flag
    THEN shouldRolloutToUser(flagKey, user, flag.rolloutPercentage)
    ELSE flag.enabled

\* the environment the evaluator compares the restriction with
currentEnv == "development"

\* a flag that never looks at its enabled field
isEnabledWithoutSwitch(m, flagKey, user) ==
    LET flag == MapGet(m, flagKey) IN
    IF flag = UNDEFINED THEN FALSE
    ELSE IF /\ "environments" \in DOMAIN flag
            /\ Len(flag.environments) > 0
            /\ ~\E i \in DOMAIN flag.environments : flag.environments[i] = currentEnv
    THEN FALSE
    ELSE DecideForUser(flag, flagKey, user)

\* isEnabled(flagKey, user) on the map m
isEnabled(m, flagKey, user) ==
    LET flag == MapGet(m, flagKey) IN
    IF flag = UNDEFINED THEN FALSE
    ELSE IF ~flag.enabled THEN FALSE
    ELSE IF /\ "environments" \in DOMAIN flag
            /\ Len(flag.environments) > 0
            /\ ~\E i \in DOMAIN flag.environments : flag.environments[i] = currentEnv
    THEN FALSE
    ELSE DecideForUser(flag, flagKey, user)

\* loadFlags(flags): flags.set(flag.key, flag) for each in turn
RECURSIVE loadFlags(_, _)
loadFlags(m, initialFlags) ==
    IF initialFlags = << >> THEN m
    ELSE loadFlags(MapSet(m, Head(initialFlags).key, Head(initialFlags)), Tail(initialFlags))

\* new FeatureFlags(_config, initialFlags): the config is not kept
FeatureFlagsNew(config, initialFlags) == loadFlags(<< >>, initialFlags)

\* the keys of FeatureFlagKey, and one more that setFlag adds
FlagKeys ==
    [registration |-> <<"r", "e", "g", "i", "s", "t", "r", "a", "t", "i", "o", "n">>,
     oauth |-> <<"o", "a", "u", "t", "h">>,
     email_verification |-> <<"e", "m", "a", "i", "l", "_", "v", "e", "r", "i", "f", "i", "c", "a", "t", "i", "o", "n">>,
     maintenance_mode |-> <<"m", "a", "i", "n", "t", "e", "n", "a", "n", "c", "e", "_", "m", "o", "d", "e">>,
     new_ui |-> <<"n", "e", "w", "_", "u", "i">>,
     admin_panel |-> <<"a", "d", "m", "i", "n", "_", "p", "a", "n", "e", "l">>,
     beta_features |-> <<"b", "e", "t", "a", "_", "f", "e", "a", "t", "u", "r", "e", "s">>,
     dark_mode |-> <<"d", "a", "r", "k", "_", "m", "o", "d", "e">>]

\* createDefaultFeatureFlags(config)
createDefaultFeatureFlags(config) ==
    <<[key |-> FlagKeys.registration, enabled |-> config.features.registration,
       description |-> "Allow new user registration"],
      [key |-> FlagKeys.oauth, enabled |-> config.features.oauth,
       description |-> "Enable OAuth authentication"],
      [key |-> FlagKeys.maintenance_mode, enabled |-> config.features.maintenanceMode,
       description |-> "Site-wide maintenance mode"],
      [key |-> FlagKeys.new_ui, enabled |-> TRUE,
       description |-> "Enable new user interface",
       rolloutPercentage |-> 10,
       environments |-> <<"staging", "production">>],
      [key |-> FlagKeys.admin_panel, enabled |-> TRUE,
       description |-> "Enable admin panel access",
       userRules |-> <<[type |-> "role", operator |-> "equals",
                        value |-> StringValue(<<"a", "d", "m", "i", "n">>)]>>],
      [key |-> FlagKeys.beta_features, enabled |-> TRUE,
       description |-> "Enable beta features for internal users",
       userRules |-> <<[type |-> "email_domain", operator |-> "equals",
                        value |-> StringValue(<<"y", "o", "u", "r", "c", "o", "m", "p", "a", "n", "y", ".", "c", "o", "m">>)]>>]>>

\* the identities the evaluator is asked about: none, an admin of the
\* company, a user from elsewhere, and a company address without a role
Identities ==
    {UNDEFINED,
     [id |-> <<"u", "1">>, email |-> <<"a", "n", "n", "@", "y", "o", "u", "r", "c", "o", "m", "p", "a", "n", "y", ".", "c", "o", "m">>, role |-> <<"a", "d", "m", "i", "n">>],
     [id |-> <<"u", "2">>, email |-> <<"b", "o", "b", "@", "e", "x", "a", "m", "p", "l", "e", ".", "c", "o", "m">>, role |-> <<"u", "s", "e", "r">>],
     [id |-> <<"u", "3">>, email |-> <<"c", "y", "@", "y", "o", "u", "r", "c", "o", "m", "p", "a", "n", "y", ".", "c", "o", "m">>]}

\* the definitions a flag of one key can have. A rollout of 52 takes the
\* identities u2 and u3 for the key email_verification and leaves u1 and the
\* anonymous caller out
FlagDefinitions(key) ==
    LET environments ==
            {NoFields, [environments |-> << >>], [environments |-> <<"development">>],
             [environments |-> <<"staging", "production">>]}
        userRules ==
            {NoFields,
             [userRules |-> << >>],
             [userRules |-> <<[type |-> "role", operator |-> "equals",
                               value |-> StringValue(<<"a", "d", "m", "i", "n">>)]>>],
             [userRules |-> <<[type |-> "user_id", operator |-> "in",
                               value |-> ArrayValue(<<<<"u", "2">>, <<"u", "9">>>>)],
                              [type |-> "email", operator |-> "starts_with",
                               value |-> StringValue(<<"c", "y", "@">>)]>>],
             [userRules |-> <<[type |-> "email_domain", operator |-> "ends_with",
                               value |-> StringValue(<<"c", "o", "m", "p", "a", "n", "y", ".", "c", "o", "m">>)],
                              [type |-> "email", operator |-> "contains",
                               value |-> StringValue(<<"z", "z", "z">>)],
                              [type |-> "role", operator |-> "in",
                               value |-> StringValue(<<"a", "d", "m", "i", "n">>)]>>]}
        rolloutPercentage ==
            {NoFields, [rolloutPercentage |-> 0], [rolloutPercentage |-> 52],
             [rolloutPercentage |-> 100]}
    IN  {Spread([key |-> key, enabled |-> enabled], Spread(e, Spread(u, r))) :
            enabled \in BOOLEAN, e \in environments, u \in userRules,
            r \in rolloutPercentage}

\* one deployment of each tier whose configuration is accepted
FlagDeployments ==
    {WorkerEnv("development", D1), WorkerEnv("staging", D1),
     [WorkerEnv("production", D1) EXCEPT !["BETTER_AUTH_SECRET"] = Str(Secret32)]}

CheckedKeys == {FlagKeys.email_verification, FlagKeys.new_ui, FlagKeys.admin_panel, FlagKeys.dark_mode}
WrittenFlags ==
    {[key |-> FlagKeys.email_verification, enabled |-> FALSE],
     [key |-> FlagKeys.new_ui, enabled |-> TRUE, environments |-> <<"development">>],
     [key |-> FlagKeys.dark_mode, enabled |-> TRUE, rolloutPercentage |-> 100]}
RemovedKeys == {FlagKeys.email_verification, FlagKeys.admin_panel}

\* new FeatureFlags(config, [...createDefaultFeatureFlags(config), flag])
InitFlags ==
    \E env \in FlagDeployments, flag \in FlagDefinitions(FlagKeys.email_verification) :
        /\ processEnv = env
        /\ appConfig = createConfig(env)
        /\ containers = <<>>
        /\ contexts = <<>>
        /\ registries = <<>>
        /\ objects = <<>>
        /\ hist = <<>>
        /\ requests = NoRequests
        /\ mergeCall = NoMerge
        /\ ServiceIdle
        /\ flags = FeatureFlagsNew(appConfig.value,
                                   Append(createDefaultFeatureFlags(appConfig.value), flag))
        /\ flagCall = NoFlagCall
        /\ flagWrites = 0

FlagsFrame ==
    UNCHANGED <<containers, contexts, registries, objects, hist, processEnv, appConfig,
                requests, mergeCall, items, serviceCall>>

\* featureFlags.isEnabled(flagKey, user)
IsEnabled(flagKey, user) ==
    /\ flagCall' = [called |-> TRUE, flagKey |-> flagKey, user |-> user,
                    flag |-> MapGet(flags, flagKey),
                    result |-> isEnabled(flags, flagKey, user)]
    /\ UNCHANGED <<flags, flagWrites>>
    /\ FlagsFrame

\* featureFlags.setFlag(flag)
SetFlag(flag) ==
    /\ flagWrites < MaxFlagWrites
    /\ flags' = MapSet(flags, flag.key, flag)
    /\ flagWrites' = flagWrites + 1
    /\ UNCHANGED flagCall
    /\ FlagsFrame

\* featureFlags.removeFlag(key)
RemoveFlag(key) ==
    /\ flagWrites < MaxFlagWrites
    /\ flags' = MapDelete(flags, key)
    /\ flagWrites' = flagWrites + 1
    /\ UNCHANGED flagCall
    /\ FlagsFrame

NextFlags ==
    \/ \E flagKey \in CheckedKeys, user \in Identities : IsEnabled(flagKey, user)
    \/ \E flag \in WrittenFlags : SetFlag(flag)
    \/ \E key \in RemovedKeys : RemoveFlag(key)

SpecFlags == InitFlags /\ [][NextFlags]_vars

\* ---------------------------------------------------------------------------
\* The percentage rollout on its own: one flag that has a rolloutPercentage
\* and nothing else, asked about and set to other percentages
\* ---------------------------------------------------------------------------

\* the identities of the evaluator, one with an empty id, and one whose seed
\* 'new_ui:ixvtvzx' hashes to -2^31
RolloutIdentities ==
    Identities \cup
        {[id |-> EmptyString, email |-> <<"n", "o", "b", "o", "d", "y", "@", "e", "x", "a", "m", "p", "l", "e", ".", "c", "o", "m">>],
         [id |-> <<"i", "x", "v", "t", "v", "z", "x">>, email |-> <<"m", "i", "n", "@", "e", "x", "a", "m", "p", "l", "e", ".", "c", "o", "m">>]}

\* new_ui with a rollout below 0, above 100, and on both sides of the buckets
\* of the identities (3, 4, 5, 48 and 94)
RolloutFlags ==
    {[key |-> FlagKeys.new_ui, enabled |-> TRUE, rolloutPercentage |-> percentage] :
        percentage \in {0 - 5, 0, 4, 5, 48, 49, 94, 95, 100, 150}}

InitRollout ==
    \E flag \in RolloutFlags :
        /\ processEnv = WorkerEnv("development", D1)
        /\ appConfig = createConfig(processEnv)
        /\ containers = <<>>
        /\ contexts = <<>>
        /\ registries = <<>>
        /\ objects = <<>>
        /\ hist = <<>>
        /\ requests = NoRequests
        /\ mergeCall = NoMerge
        /\ ServiceIdle
        /\ flags = FeatureFlagsNew(appConfig.value, <<flag>>)
        /\ flagCall = NoFlagCall
        /\ flagWrites = 0

NextRollout ==
    \/ \E user \in RolloutIdentities : IsEnabled(FlagKeys.new_ui, user)
    \/ \E flag \in RolloutFlags : SetFlag(flag)

SpecRollout == InitRollout /\ [][NextRollout]_vars

\* ---------------------------------------------------------------------------
\* BaseService helpers (unnamed/part_011), UserService.getMe and errorHandler
\* ---------------------------------------------------------------------------

MaxItems == 3   \* length of the array a caller hands to a list helper

\* the identities a service can hold, with the role property of their user
\* objects: an admin, a plain user and a user whose role was never set
ServiceUsers == {"alice", "bob", "carol"}
Roles == [alice |-> Str("admin"), bob |-> Str("user"), carol |-> UNDEFINED]
RoleNames == {Str("admin"), Str("user"), Str("editor")}

\* the mutant of hasRole: any identity has any role
hasRoleOfAnyone(service, role) == service.currentUser # NoUser

\* return this.currentUser?.role === role
hasRole(service, role) ==
    LET userRole ==
            IF service.currentUser = NoUser THEN UNDEFINED
            ELSE Roles[service.currentUser]
    IN  userRole = role

\* the mutant of requireRole: the role of the identity is not compared
requireRoleOfAnyone(service, role) ==
    LET user == requireUser(service) IN
    IF user.outcome = "throw" THEN user ELSE Return(UNDEFINED)

\* const user = this.requireUser(); if (user.role !== role) throw new Error(...)
requireRole(service, role) ==
    LET user == requireUser(service) IN
    IF user.outcome = "throw" THEN user
    ELSE IF Roles[user.value] # role
    THEN [outcome |-> "throw", value |-> UNDEFINED, error |-> Err("Role required", role.s)]
    ELSE Return(UNDEFINED)

\* lib/errors.ts: statusCode and isOperational of the AppError classes
AppErrors ==
    [ValidationError |-> [statusCode |-> 400, isOperational |-> TRUE],
     UnauthorizedError |-> [statusCode |-> 401, isOperational |-> TRUE],
     ForbiddenError |-> [statusCode |-> 403, isOperational |-> TRUE],
     NotFoundError |-> [statusCode |-> 404, isOperational |-> TRUE],
     ConflictError |-> [statusCode |-> 409, isOperational |-> TRUE],
     BusinessLogicError |-> [statusCode |-> 422, isOperational |-> TRUE],
     RateLimitError |-> [statusCode |-> 429, isOperational |-> TRUE],
     InternalServerError |-> [statusCode |-> 500, isOperational |-> FALSE],
     ExternalServiceError |-> [statusCode |-> 502, isOperational |-> TRUE]]

\* errorHandler(err, c): the status and the error text of the JSON response
errorHandler(err, env) ==
    LET isOperationalError(error) ==
            IF error.class \in DOMAIN AppErrors THEN AppErrors[error.class].isOperational
            ELSE FALSE
    IN
    IF err.class \in DOMAIN AppErrors
    THEN [status |-> AppErrors[err.class].statusCode, error |-> err.message]
    ELSE IF err.class = "HTTPException"
    THEN [status |-> err.status, error |-> err.message]
    ELSE IF err.class = "ZodError"
    THEN [status |-> 400, error |-> "Validation failed"]
    ELSE IF isOperationalError(err)
    THEN [status |-> 500, error |-> "Internal server error"]
    ELSE [status |-> 500,
          error |-> IF env["NODE_ENV"] = Str("development") THEN err.message
                    ELSE "Internal server error"]

\* UserService.getMe(): `found` is whether the query finds the row
getMe(service, found) ==
    LET Error(message) == [class |-> "Error", message |-> message] IN
    IF ~Truthy(service.db)
    THEN [outcome |-> "throw", error |-> Error("Database not available")]
    ELSE LET currentUser == requireUser(service) IN
         IF currentUser.outcome = "throw"
         THEN [outcome |-> "throw", error |-> Error(currentUser.error.name)]
         ELSE IF ~found
         THEN [outcome |-> "throw",
               error |-> [class |-> "NotFoundError", message |-> "User not found"]]
         ELSE [outcome |-> "return", value |-> currentUser.value]

\* String.prototype.toLowerCase on the letters the model uses
toLowerCase(s) ==
    LET Upper ==
            <<"A", "B", "C", "D", "E", "F", "G", "H", "I", "J", "K", "L", "M",
              "N", "O", "P", "Q", "R", "S", "T", "U", "V", "W", "X", "Y", "Z">>
        Lower ==
            <<"a", "b", "c", "d", "e", "f", "g", "h", "i", "j", "k", "l", "m",
              "n", "o", "p", "q", "r", "s", "t", "u", "v", "w", "x", "y", "z">>
        lower(c) ==
            IF \E i \in DOMAIN Upper : Upper[i] = c
            THEN Lower[CHOOSE i \in DOMAIN Upper : Upper[i] = c]
            ELSE c
    IN  [i \in DOMAIN s |-> lower(s[i])]

\* String(n) of a number n >= 0
RECURSIVE NumberString(_)
NumberString(n) ==
    LET Digits == <<"0", "1", "2", "3", "4", "5", "6", "7", "8", "9">> IN
    IF n < 10 THEN <<Digits[n + 1]>>
    ELSE Append(NumberString(n \div 10), Digits[(n % 10) + 1])

\* the fields of the items that hold numbers; the others hold strings
NumberFields == {"views"}

\* String(item[field]): a field the item lacks reads undefined
StringOf(item, field) ==
    IF field \notin DOMAIN item THEN <<"u", "n", "d", "e", "f", "i", "n", "e", "d">>
    ELSE IF field \in NumberFields THEN NumberString(item[field])
    ELSE item[field]

\* a < b on two strings: by the first code unit that differs
RECURSIVE LessString(_, _)
LessString(a, b) ==
    IF b = << >> THEN FALSE
    ELSE IF a = << >> THEN TRUE
    ELSE IF Head(a) = Head(b) THEN LessString(Tail(a), Tail(b))
    ELSE charCodeAt(Head(a)) < charCodeAt(Head(b))

\* array.slice(start, end) with 0 <= start <= end
slice(array, start, end) ==
    LET from == IF start < Len(array) THEN start ELSE Len(array)
        to == IF end < Len(array) THEN end ELSE Len(array)
    IN  SubSeq(array, from + 1, to)

\* the mutant of applyPagination: the offset counts pages from zero
applyPaginationFromZero(array, options) ==
    [data |-> slice(array, options.page * options.limit,
                    options.page * options.limit + options.limit),
     pagination |-> [page |-> options.page, limit |-> options.limit,
                     total |-> Len(array),
                     pages |-> (Len(array) + options.limit - 1) \div options.limit]]

\* applyPagination(items, options) for integers page >= 1 and limit >= 1
applyPagination(array, options) ==
    LET total == Len(array)
        \* Math.ceil(total / options.limit)
        pages == (total + options.limit - 1) \div options.limit
        offset == (options.page - 1) * options.limit
        data == slice(array, offset, offset + options.limit)
    IN  [data |-> data,
         pagination |-> [page |-> options.page, limit |-> options.limit,
                         total |-> total, pages |-> pages]]

\* the comparator applySorting hands to sort
Comparator(a, b, sortBy, sortOrder) ==
    LET greater ==
            IF sortBy \in NumberFields THEN a[sortBy] > b[sortBy]
            ELSE LessString(b[sortBy], a[sortBy])
        less ==
            IF sortBy \in NumberFields THEN a[sortBy] < b[sortBy]
            ELSE LessString(a[sortBy], b[sortBy])
        comparison == IF greater THEN 1 ELSE IF less THEN 0 - 1 ELSE 0
    IN  IF sortOrder = "asc" THEN comparison ELSE 0 - comparison

\* Array.prototype.sort with that comparator: a stable sort, every element
\* placed behind the elements it does not precede
RECURSIVE SortedArray(_, _, _)
SortedArray(array, sortBy, sortOrder) ==
    IF array = << >> THEN << >>
    ELSE LET front == SortedArray(SubSeq(array, 1, Len(array) - 1), sortBy, sortOrder)
             last == array[Len(array)]
             behind ==
                {i \in DOMAIN front : Comparator(front[i], last, sortBy, sortOrder) <= 0}
             at == IF behind = {} THEN 0 ELSE CHOOSE i \in behind : \A j \in behind : j <= i
         IN  SubSeq(front, 1, at) \o <<last>> \o SubSeq(front, at + 1, Len(front))

\* applySorting(items, sortBy, sortOrder): items.sort(...) sorts the array it
\* is called on and returns that array
applySorting(array, sortBy, sortOrder) ==
    LET sorted == SortedArray(array, sortBy, sortOrder) IN
    [result |-> sorted, items |-> sorted]

\* the mutant of applyTextSearch: the term is compared as it was typed
applyTextSearchCased(array, searchTerm, searchFields) ==
    LET Matches(item) ==
            \E i \in DOMAIN searchFields :
                includes(toLowerCase(StringOf(item, searchFields[i])), searchTerm)
    IN  IF searchTerm = EmptyString THEN array ELSE SelectSeq(array, Matches)

\* applyTextSearch(items, searchTerm, searchFields); SelectSeq is items.filter
applyTextSearch(array, searchTerm, searchFields) ==
    LET term == toLowerCase(searchTerm)
        Matches(item) ==
            \E i \in DOMAIN searchFields :
                includes(toLowerCase(StringOf(item, searchFields[i])), term)
    IN  IF searchTerm = EmptyString THEN array ELSE SelectSeq(array, Matches)

\* the posts the arrays are drawn from: two with the same number of views,
\* ids that order differently as strings and as numbers, and one post that
\* has no content
Posts ==
    {[id |-> <<"2">>, title |-> <<"T", "e", "a">>, content |-> <<"h", "o", "t">>, views |-> 5],
     [id |-> <<"1", "0">>, title |-> <<"e", "a", "t">>, content |-> <<"H", "a", "m">>, views |-> 5],
     [id |-> <<"3">>, title |-> <<"Z", "o", "o">>, views |-> 1]}
PostArrays == UNION {[1..n -> Posts] : n \in 0..MaxItems}
SortKeys == {"id", "views"}
SearchTerms == {EmptyString, <<"e", "a">>, <<"H">>, <<"U", "N", "D">>, <<"5">>}
SearchFields == {<<"title">>, <<"title", "content">>, <<"views">>, << >>}

\* a worker in development and one in production, each with its D1 binding
ServiceDeployments ==
    {WorkerEnv("development", D1),
     [WorkerEnv("production", D1) EXCEPT !["BETTER_AUTH_SECRET"] = Str(Secret32)]}

\* the container of a request, the identity its session stands for set on it
\* (or none set), the user service resolved from it, and an array of posts
InitService ==
    \E env \in ServiceDeployments, identity \in ServiceUsers \cup {NoUser},
       posts \in PostArrays :
        LET made == createContainer(EmptyStore, env)
            container == made.value.id
            authenticated ==
                IF identity = NoUser THEN made.store
                ELSE SetUserOp(made.store, container, identity)
            resolved == getUserService(authenticated, container)
        IN  /\ containers = resolved.store.containers
            /\ contexts = resolved.store.contexts
            /\ registries = resolved.store.registries
            /\ objects = resolved.store.objects
            /\ hist = HistoryFor(resolved.store.registries, <<>>)
            /\ processEnv = env
            /\ appConfig = NotCalled
            /\ requests = NoRequests
            /\ mergeCall = NoMerge
            /\ FlagsIdle
            /\ items = posts
            /\ serviceCall = NoServiceCall

ServiceFrame ==
    UNCHANGED <<containers, contexts, registries, objects, hist, processEnv, appConfig,
                requests, mergeCall, flags, flagCall, flagWrites>>

\* the user service the container holds
userService == objects[Len(objects)]

\* userService.requireUser()
RequireUser ==
    /\ serviceCall' = [called |-> TRUE, op |-> "requireUser",
                       result |-> requireUser(userService)]
    /\ UNCHANGED items
    /\ ServiceFrame

\* userService.requireRole(role)
RequireRole(role) ==
    /\ serviceCall' = [called |-> TRUE, op |-> "requireRole", role |-> role,
                       result |-> requireRole(userService, role)]
    /\ UNCHANGED items
    /\ ServiceFrame

\* userService.hasRole(role)
HasRole(role) ==
    /\ serviceCall' = [called |-> TRUE, op |-> "hasRole", role |-> role,
                       result |-> hasRole(userService, role)]
    /\ UNCHANGED items
    /\ ServiceFrame

\* a handler awaits userService.getMe(); what it throws goes to errorHandler
HandleMe(found) ==
    LET user == getMe(userService, found) IN
    /\ serviceCall' =
            [called |-> TRUE, op |-> "getMe", result |-> user,
             response |-> IF user.outcome = "throw"
                          THEN errorHandler(user.error, processEnv)
                          ELSE [status |-> 200, data |-> user.value]]
    /\ UNCHANGED items
    /\ ServiceFrame

\* this.applyPagination(items, {page, limit})
ApplyPagination(page, limit) ==
    /\ serviceCall' = [called |-> TRUE, op |-> "applyPagination", given |-> items,
                       options |-> [page |-> page, limit |-> limit],
                       result |-> applyPagination(items, [page |-> page, limit |-> limit])]
    /\ UNCHANGED items
    /\ ServiceFrame

\* this.applySorting(items, sortBy, sortOrder)
ApplySorting(sortBy, sortOrder) ==
    LET sorted == applySorting(items, sortBy, sortOrder) IN
    /\ serviceCall' = [called |-> TRUE, op |-> "applySorting", given |-> items,
                       sortBy |-> sortBy, sortOrder |-> sortOrder,
                       result |-> sorted.result]
    /\ items' = sorted.items
    /\ ServiceFrame

\* this.applyTextSearch(items, searchTerm, searchFields)
ApplyTextSearch(searchTerm, searchFields) ==
    /\ serviceCall' = [called |-> TRUE, op |-> "applyTextSearch", given |-> items,
                       searchTerm |-> searchTerm, searchFields |-> searchFields,
                       result |-> applyTextSearch(items, searchTerm, searchFields)]
    /\ UNCHANGED items
    /\ ServiceFrame

NextService ==
    \/ RequireUser
    \/ \E role \in RoleNames : RequireRole(role)
    \/ \E role \in RoleNames : HasRole(role)
    \/ \E found \in BOOLEAN : HandleMe(found)
    \/ \E page \in 1..(MaxItems + 1), limit \in 1..(MaxItems + 1) :
            ApplyPagination(page, limit)
    \/ \E sortBy \in SortKeys, sortOrder \in {"asc", "desc"} : ApplySorting(sortBy, sortOrder)
    \/ \E searchTerm \in SearchTerms, searchFields \in SearchFields :
            ApplyTextSearch(searchTerm, searchFields)

SpecService == InitService /\ [][NextService]_vars

----------------------------------------------------------------------------
(* Claims about the container *)

Registered(r, token) == registries[r][token] # Absent
ByClass(r, token) ==
    Registered(r, token) /\ registries[r][token].constructor.callable = "class"
ByValue(r, token) ==
    Registered(r, token) /\ registries[r][token].constructor.callable = "arrow"

\* C1: for a token registered with register(token, ctor, {singleton}), after k >= 1
\* resolves that returned: a singleton (true or omitted) had its constructor
\* invoked exactly once, every resolve returned that one instance and it is the
\* cached one; a non-singleton had its constructor invoked k times, the k
\* results are pairwise distinct and nothing is cached.
C1_SingletonOnceElseFresh ==
    \A r \in 1..Len(registries), token \in CountedTokens :
        (ByClass(r, token) /\ hist[r][token].returns >= 1) =>
            IF registries[r][token].singleton
            THEN /\ hist[r][token].invoked = 1
                 /\ hist[r][token].results = {registries[r][token].instance}
                 /\ registries[r][token].instance.tag = "object"
            ELSE /\ hist[r][token].invoked = hist[r][token].returns
                 /\ Cardinality(hist[r][token].results) = hist[r][token].returns
                 /\ registries[r][token].instance = UNDEFINED

\* a singleton resolved twice since its registration
C1_Witness ==
    \E r \in 1..Len(registries), token \in CountedTokens :
        /\ ByClass(r, token)
        /\ registries[r][token].singleton
        /\ hist[r][token].returns = 2
        /\ hist[r][token].invoked = 1

\* C2: in every reachable state, resolve of a token with no registration throws
\* 'Service not registered' and leaves registrations, instances and contexts alone.
C2_UnregisteredResolveThrows ==
    \A c \in Live, token \in Tokens :
        ~Registered(containers[c].registry, token) =>
            /\ ResolveOp(Store, c, token).outcome = "throw"
            /\ ResolveOp(Store, c, token).error = NotRegistered(token)
            /\ ResolveOp(Store, c, token).store = Store

\* C3: after registerValue(token, v), resolve(token) on every container of the
\* registry returns v itself and invokes no constructor, for every v, null and
\* undefined included.
C3_RegisteredValueResolves ==
    \A c \in Live, token \in Tokens :
        ByValue(containers[c].registry, token) =>
            /\ ResolveOp(Store, c, token).outcome = "return"
            /\ ResolveOp(Store, c, token).value = RegistryOf(Store, c)[token].instance
            /\ ResolveOp(Store, c, token).invoked = 0

C5_ForkSharesRegistrations ==
    \A c \in Live, d \in Live :
        /\ containers[c].registry = containers[d].registry
        /\ \A token \in Tokens :
              /\ HasOp(Store, c, token) = HasOp(Store, d, token)
              /\ RegistrationInstance(RegistryOf(Store, c)[token]) # UNDEFINED =>
                    /\ ResolveOp(Store, d, token).outcome = "return"
                    /\ ResolveOp(Store, d, token).value = RegistryOf(Store, c)[token].instance
                    /\ ResolveOp(Store, d, token).invoked = 0

\* a fork exists, and a token registered and resolved after the fork (the
\* instance holds the fork's identity) is cached for the parent too
C5_Witness ==
    /\ Len(containers) >= 2
    /\ ByClass(containers[1].registry, "PostService")
    /\ RegistryOf(Store, 1)["PostService"].instance.tag = "object"
    /\ objects[RegistryOf(Store, 1)["PostService"].instance.id].currentUser
            = ContextOf(Store, 2).user
    /\ ContextOf(Store, 1).user = NoUser
    /\ RegistryOf(Store, 1)["userService"].instance.tag = "object"

\* C6: withUser(u) returns a new container with user u on the same env and
\* leaves every existing context as it was; setUser changes the user of the
\* container it is called on and of no other.
C6_IdentityPerContainer ==
    [][\A c \in Live, user \in Users :
        /\ WithUser(c, user) =>
              /\ Len(containers') = Len(containers) + 1
              /\ ContextOf(Store', Len(containers')).user = user
              /\ ContextOf(Store', Len(containers')).env = ContextOf(Store, c).env
              /\ \A k \in Live : ContextOf(Store', k) = ContextOf(Store, k)
        /\ SetUser(c, user) =>
              /\ ContextOf(Store', c).user = user
              /\ \A k \in Live \ {c} : ContextOf(Store', k) = ContextOf(Store, k)]_vars

\* the parent and its fork carry two different identities, the parent's set
\* by setUser
C6_Witness ==
    /\ Len(containers) >= 2
    /\ ContextOf(Store, 1).user \in Users
    /\ ContextOf(Store, 2).user \in Users
    /\ ContextOf(Store, 1).user # ContextOf(Store, 2).user

\* C7: setUser(identity) sets the user of the container's own context and
\* nothing else: same containers, same env, same registrations and instances.
C7_SetUserInPlace ==
    [][\A c \in Live, user \in Users :
        SetUser(c, user) =>
            /\ ContextOf(Store', c).user = user
            /\ ContextOf(Store', c).env = ContextOf(Store, c).env
            /\ containers' = containers
            /\ registries' = registries
            /\ objects' = objects]_vars

\* the root container, built without a user, carries one, and holds a cached
\* singleton
C7_Witness ==
    /\ ContextOf(Store, 1).user \in Users
    /\ RegistryOf(Store, 1)["userService"].instance.tag = "object"

\* C8: has(token) is true exactly when the token is registered, and a token
\* registered by class and not resolved since has no instance and no
\* constructor invocation.
C8_LazyAndHasExact ==
    \A c \in Live, token \in Tokens :
        /\ HasOp(Store, c, token) <=> Registered(containers[c].registry, token)
        /\ (token \in CountedTokens /\ ByClass(containers[c].registry, token)
                /\ hist[containers[c].registry][token].returns = 0) =>
              /\ hist[containers[c].registry][token].invoked = 0
              /\ RegistryOf(Store, c)[token].instance = UNDEFINED

----------------------------------------------------------------------------
(* Claims about the request flow *)

Started(r) == requests[r].container # 0
UserServiceOf(r) == RegistryOf(Store, requests[r].container)[SERVICE_TOKENS.USER_SERVICE]

\* C9: with one createServer/createContainer per request, in every
\* interleaving of the requests: two requests never hold the same container,
\* registration map or context; the user of a request's container, the
\* identity its cached user service was built with, the identity its query is
\* made for and the identity its response reports are the identity
\* authenticated on that same request, never the other request's.
C9_RequestsIsolated ==
    \A r \in RequestIds :
        Started(r) =>
            /\ \A q \in RequestIds \ {r} :
                  Started(q) =>
                     /\ requests[q].container # requests[r].container
                     /\ containers[requests[q].container].registry
                            # containers[requests[r].container].registry
                     /\ containers[requests[q].container].context
                            # containers[requests[r].container].context
            /\ ContextOf(Store, requests[r].container).user = requests[r].user
            /\ requests[r].user \in {NoUser, requests[r].session}
            /\ UserServiceOf(r).instance # UNDEFINED =>
                  objects[UserServiceOf(r).instance.id].currentUser = requests[r].session
            /\ requests[r].pc = "querying" => requests[r].queried = requests[r].session
            /\ requests[r].status = "ok" => requests[r].body = requests[r].session

\* two requests of two identities, interleaved (the request that came second
\* built its user service first), each answered with its own identity
C9_Witness ==
    /\ requests[1].status = "ok" /\ requests[1].body = "alice"
    /\ requests[2].status = "ok" /\ requests[2].body = "bob"
    /\ requests[1].container = 1 /\ requests[2].container = 2
    /\ UserServiceOf(1).instance = ObjectRef(2)
    /\ UserServiceOf(2).instance = ObjectRef(1)

----------------------------------------------------------------------------
(* Claims about the configuration composer *)

SettingsBundleOf ==
    [development |-> developmentSettings, staging |-> stagingSettings,
     production |-> productionSettings]

\* the behaviour groups of a composed config, and of a bundle: the groups
\* copied whole and the bundle-sourced fields of database, auth and email
BehaviourGroups(x) ==
    [app |-> x.app, features |-> x.features, rateLimit |-> x.rateLimit,
     logging |-> x.logging, performance |-> x.performance,
     security |-> x.security, api |-> x.api,
     database |-> [maxConnections |-> x.database.maxConnections,
                   queryTimeout |-> x.database.queryTimeout,
                   enableLogging |-> x.database.enableLogging,
                   retryAttempts |-> x.database.retryAttempts],
     auth |-> [sessionDuration |-> x.auth.sessionDuration,
               tokenExpiry |-> x.auth.tokenExpiry,
               requireEmailVerification |-> x.auth.requireEmailVerification],
     email |-> [from |-> x.email.from, replyTo |-> x.email.replyTo,
                templates |-> x.email.templates]]

\* the raw environment passes the schema (and, in production, the production
\* check) with NODE_ENV = tier
Validates(env, tier) ==
    /\ SchemaIssues(env) = {}
    /\ SchemaData(env)["NODE_ENV"] = Str(tier)
    /\ tier = "production" =>
            validateProductionEnvironment(SchemaData(env)).outcome = "return"

SecretsAbsent(config) ==
    /\ config.database.url = UNDEFINED
    /\ config.auth.secret = UNDEFINED
    /\ config.auth.baseUrl = UNDEFINED
    /\ config.auth.oauth.github.clientId = UNDEFINED
    /\ config.auth.oauth.github.clientSecret = UNDEFINED
    /\ config.auth.oauth.google.clientId = UNDEFINED
    /\ config.auth.oauth.google.clientSecret = UNDEFINED
    /\ config.email.smtp = UNDEFINED
    /\ \A k \in DOMAIN config.external : config.external[k] = UNDEFINED

\* C11: in tier development (NODE_ENV is 'development', or absent and so
\* development by default) a raw environment that fails the schema makes
\* createConfig return, without throwing, the config of the development
\* bundle and the all-defaults environment: every secret and URL is absent.
C11_DevelopmentFallsBack ==
    (/\ appConfig # NotCalled
     /\ processEnv["NODE_ENV"] \in {UNDEFINED, Str("development")}
     /\ SchemaIssues(processEnv) # {}) =>
        /\ appConfig.outcome = "return"
        /\ BehaviourGroups(appConfig.value) = BehaviourGroups(developmentSettings)
        /\ SecretsAbsent(appConfig.value)

\* the configuration of the deployment is refused: the schema fails in
\* staging or production, or the production check fails
ConfigRefused(env) ==
    \/ /\ env["NODE_ENV"] \in {Str("staging"), Str("production")}
       /\ SchemaIssues(env) # {}
    \/ /\ SchemaIssues(env) = {}
       /\ validateProductionEnvironment(SchemaData(env)).outcome = "throw"

\* C12: when NODE_ENV is staging or production and the raw environment fails
\* the schema, or when the production check fails, createConfig throws and
\* returns no config, and every createContainer call (one per request) throws
\* with no container, context or registration created.
C12_RefusedConfigBuildsNothing ==
    ConfigRefused(processEnv) =>
        /\ createConfig(processEnv).outcome = "throw"
        /\ createConfig(processEnv).value = UNDEFINED
        /\ \A r \in RequestIds :
              requests[r].pc # "idle" =>
                 /\ requests[r].pc = "done"
                 /\ requests[r].status = "threw"
                 /\ requests[r].container = 0
        /\ containers = <<>> /\ contexts = <<>> /\ registries = <<>> /\ objects = <<>>

\* a staging deployment with a malformed URL: both requests were refused
C12_Witness ==
    /\ processEnv["NODE_ENV"] = Str("staging")
    /\ SchemaIssues(processEnv) = {"BETTER_AUTH_URL"}
    /\ \A r \in RequestIds : requests[r].status = "threw"

\* C13: with NODE_ENV = production, createConfig throws whenever
\* BETTER_AUTH_SECRET is absent, empty or shorter than 32 characters, and
\* returns when the secret has 32 characters or more and the other fields pass
\* the schema; a missing DB binding gives a warning and no error.
C13_ProductionNeedsSecret ==
    (appConfig # NotCalled /\ processEnv["NODE_ENV"] = Str("production")) =>
        LET secret == processEnv["BETTER_AUTH_SECRET"] IN
        /\ (~Truthy(secret) \/ StringLength(secret.s) < 32) =>
                appConfig.outcome = "throw"
        /\ (Truthy(secret) /\ StringLength(secret.s) >= 32
                /\ SchemaIssues(processEnv) = {}) =>
              /\ appConfig.outcome = "return"
              /\ validateProductionEnvironment(SchemaData(processEnv)) =
                    Return(IF Truthy(processEnv["DB"]) THEN UNDEFINED
                           ELSE Str("warn: No DB binding"))

\* a production environment with a 32-character secret and no DB binding,
\* composed
C13_Witness ==
    /\ appConfig.outcome = "return"
    /\ processEnv["NODE_ENV"] = Str("production")
    /\ processEnv["BETTER_AUTH_SECRET"] = Str(Secret32)
    /\ processEnv["DB"] = UNDEFINED
    /\ appConfig.value.auth.secret = Str(Secret32)

\* the second raw environment of a comparison: it differs from the first in
\* any of tier, secret, DATABASE_URL, SMTP host and DB binding
ComparedEnvironments ==
    {env \in RawEnvironments :
        /\ env["BETTER_AUTH_SECRET"] \in {UNDEFINED, Str(Secret32)}
        /\ env["BETTER_AUTH_URL"] = UNDEFINED
        /\ env["SMTP_HOST"] \in {UNDEFINED, Str(SmtpHost)}
        /\ env["SMTP_PORT"] = UNDEFINED}
ConfigOf(env) == createConfig(env)

\* the compared environments that validate to the tier processEnv validates to
SameTier ==
    {other \in ComparedEnvironments :
        \E t \in Tiers : Validates(processEnv, t) /\ Validates(other, t)}

\* C14 as claimed: two raw environments that validate to the same tier get
\* identical config.database, rateLimit, logging and security groups, field
\* for field.
C14_GroupsIgnoreEnvironment ==
    appConfig # NotCalled =>
        \A other \in SameTier :
            /\ ConfigOf(other).value.database = appConfig.value.database
            /\ ConfigOf(other).value.rateLimit = appConfig.value.rateLimit
            /\ ConfigOf(other).value.logging = appConfig.value.logging
            /\ ConfigOf(other).value.security = appConfig.value.security

\* C14 as amended: two raw environments that validate to the same tier get
\* identical rateLimit, logging and security groups and identical
\* maxConnections, queryTimeout, enableLogging and retryAttempts in database;
\* database.url is the DATABASE_URL of the raw environment, so it differs
\* between them exactly when their DATABASE_URL differs.
C14_KnobsIgnoreEnvironment ==
    appConfig # NotCalled =>
        \A other \in SameTier :
            LET mine == appConfig.value
                theirs == ConfigOf(other).value
            IN  /\ theirs.rateLimit = mine.rateLimit
                /\ theirs.logging = mine.logging
                /\ theirs.security = mine.security
                /\ theirs.database.maxConnections = mine.database.maxConnections
                /\ theirs.database.queryTimeout = mine.database.queryTimeout
                /\ theirs.database.enableLogging = mine.database.enableLogging
                /\ theirs.database.retryAttempts = mine.database.retryAttempts
                /\ mine.database.url = processEnv["DATABASE_URL"]
                /\ theirs.database.url = other["DATABASE_URL"]

\* a staging environment with a DATABASE_URL, composed, and a staging
\* environment without one, differing from it in secret, SMTP host and binding
C14_Witness ==
    /\ appConfig.outcome = "return"
    /\ processEnv["NODE_ENV"] = Str("staging")
    /\ processEnv["DATABASE_URL"] = Str(DatabaseUrl)
    /\ \E other \in SameTier :
          /\ other["DATABASE_URL"] = UNDEFINED
          /\ other["BETTER_AUTH_SECRET"] # processEnv["BETTER_AUTH_SECRET"]
          /\ other["SMTP_HOST"] # processEnv["SMTP_HOST"]
          /\ other["DB"] # processEnv["DB"]
          /\ ConfigOf(other).value.database.url # appConfig.value.database.url

\* every field of every group of the bundle is a field of the same group of
\* the config, with the same value (a nested value such as email.templates or
\* api.openapi compared whole)
CarriesBundle(config, bundle) ==
    \A group \in DOMAIN bundle :
        /\ group \in DOMAIN config
        /\ \A field \in DOMAIN bundle[group] :
              /\ field \in DOMAIN config[group]
              /\ config[group][field] = bundle[group][field]

\* C15: for every tier, every field present in the selected settings bundle,
\* at every nesting level (auth.allowedDomains, email.templates and
\* api.openapi included), is present with the same value in the config
\* createConfig returns.
C15_ConfigCarriesBundle ==
    \A t \in Tiers :
        (appConfig # NotCalled /\ Validates(processEnv, t)) =>
            /\ appConfig.outcome = "return"
            /\ CarriesBundle(appConfig.value, SettingsBundleOf[t])

\* the result's object is the base's with the override's fields over it,
\* apart from the members that are merged further down
Overlaid(result, base, over, nested) ==
    /\ DOMAIN result = DOMAIN base \cup DOMAIN over
    /\ \A k \in DOMAIN result \ nested :
        result[k] = IF k \in DOMAIN over THEN over[k] ELSE base[k]

Named(o, k) == IF k \in DOMAIN o THEN o[k] ELSE NoFields

\* C16: mergeSettings(base, overrides) returns, for every group, the base's
\* group overlaid by the override's fields for that group; a partial override
\* of email.templates or of api.openapi (contact, license, servers, tags)
\* keeps the nested fields of the base that the override does not name; a
\* group the override does not have equals the base's; and neither argument
\* is modified.
C16_MergeOverlaysGroups ==
    mergeCall.called =>
        LET base == mergeCall.given.baseSettings
            over == mergeCall.given.overrides
            result == mergeCall.result
            email == Named(over, "email")
            openapi == Named(Named(over, "api"), "openapi")
        IN  /\ DOMAIN result = DOMAIN base
            /\ \A g \in DOMAIN base \ {"email", "api"} :
                Overlaid(result[g], base[g], Named(over, g), {})
            /\ Overlaid(result.email, base.email, email, {"templates"})
            /\ Overlaid(result.email.templates, base.email.templates,
                        Named(email, "templates"), {})
            /\ Overlaid(result.api, base.api, Named(over, "api"), {"openapi"})
            /\ Overlaid(result.api.openapi, base.api.openapi, openapi,
                        {"contact", "license"})
            /\ Overlaid(result.api.openapi.contact, base.api.openapi.contact,
                        Named(openapi, "contact"), {})
            /\ Overlaid(result.api.openapi.license, base.api.openapi.license,
                        Named(openapi, "license"), {})
            /\ \A g \in DOMAIN base \ DOMAIN over : result[g] = base[g]
            /\ mergeCall.baseSettings = base
            /\ mergeCall.overrides = over

\* a call whose override names one template and one contact field only, and
\* gives an empty servers list or nothing for another group
C16_Witness ==
    /\ mergeCall.called
    /\ mergeCall.given.baseSettings = productionSettings
    /\ "logging" \notin DOMAIN mergeCall.given.overrides
    /\ "email" \in DOMAIN mergeCall.given.overrides
    /\ "api" \in DOMAIN mergeCall.given.overrides
    /\ DOMAIN mergeCall.given.overrides.email = {"templates"}
    /\ DOMAIN mergeCall.given.overrides.api.openapi = {"contact"}
    /\ mergeCall.result.email.templates.welcome = "Hello"
    /\ mergeCall.result.email.templates.passwordReset
        = productionSettings.email.templates.passwordReset
    /\ mergeCall.result.email.from = productionSettings.email.from
    /\ mergeCall.result.api.openapi.contact.email = "api@yourapp.com"
    /\ mergeCall.result.api.openapi.contact.name = productionSettings.api.openapi.contact.name
    /\ mergeCall.result.api.openapi.servers = productionSettings.api.openapi.servers
    /\ mergeCall.result.logging = productionSettings.logging

\* some rule of the flag of the latest call matches the identity of that call
SomeRuleMatches ==
    /\ flagCall.user # UNDEFINED
    /\ "userRules" \in DOMAIN flagCall.flag
    /\ \E i \in DOMAIN flagCall.flag.userRules :
        matchesUserRule(flagCall.flag.userRules[i], flagCall.user)

\* the deployment tier of the config the evaluator was created from
CurrentTier == appConfig.value.app.environment

ListsTier(flag, tier) == \E i \in DOMAIN flag.environments : flag.environments[i] = tier

\* C17: a flag whose enabled field is false is a global kill switch:
\* isEnabled returns false for every identity, also when a userRule matches
\* the identity, when rolloutPercentage is 100 and when the environments list
\* contains the current tier.
C17_DisabledFlagIsOff ==
    (/\ flagCall.called
     /\ flagCall.flag # UNDEFINED
     /\ ~flagCall.flag.enabled)
        => flagCall.result = FALSE

\* a disabled flag asked about for an identity one of its rules matches, with
\* a rollout of 100 and the current tier in its environments list
C17_Witness ==
    /\ flagCall.called
    /\ flagCall.flag # UNDEFINED
    /\ ~flagCall.flag.enabled
    /\ SomeRuleMatches
    /\ "rolloutPercentage" \in DOMAIN flagCall.flag
    /\ flagCall.flag.rolloutPercentage = 100
    /\ "environments" \in DOMAIN flagCall.flag
    /\ ListsTier(flagCall.flag, CurrentTier)
    /\ flagCall.result = FALSE

\* the flag of the latest call restricts the environments
RestrictsEnvironments ==
    /\ flagCall.called
    /\ flagCall.flag # UNDEFINED
    /\ "environments" \in DOMAIN flagCall.flag
    /\ Len(flagCall.flag.environments) > 0

\* what the switch, the user rules and the rollout decide for the latest call
DecisionOfOtherRules ==
    flagCall.flag.enabled /\ DecideForUser(flagCall.flag, flagCall.flagKey, flagCall.user)

\* C18: for a flag with a non-empty environments list, isEnabled returns
\* false whenever the current deployment tier (the app.environment of the
\* config the evaluator was created from) is not in the list, and the
\* environment rule does not reject the flag when the current tier is in the
\* list, for each of the tiers development, staging and production.
C18_EnvironmentsFollowTier ==
    RestrictsEnvironments =>
        IF ListsTier(flagCall.flag, CurrentTier)
        THEN flagCall.result = DecisionOfOtherRules
        ELSE flagCall.result = FALSE

\* the flag of the latest call is enabled and passes the environment rule of
\* the deployment: it has no environments list, or an empty one, or one that
\* contains the current tier
EnabledInThisTier ==
    /\ flagCall.called
    /\ flagCall.flag # UNDEFINED
    /\ flagCall.flag.enabled
    /\ \/ "environments" \notin DOMAIN flagCall.flag
       \/ Len(flagCall.flag.environments) = 0
       \/ ListsTier(flagCall.flag, CurrentTier)

\* C19: for an enabled flag that passes the environment rule, when an
\* identity is given and at least one userRule matches it (by id, email, role
\* or email-domain under the rule's operator), isEnabled returns true
\* whatever rolloutPercentage is, including 0.
C19_MatchingRuleBeatsRollout ==
    (EnabledInThisTier /\ SomeRuleMatches) => flagCall.result = TRUE

\* C20: for an enabled flag that passes the environment rule and whose
\* userRules match nothing for the given identity (or when no identity is
\* given), isEnabled returns the rollout decision when rolloutPercentage is
\* defined, and otherwise flag.enabled, that is true: the default admin_panel
\* flag is reported enabled for an identity that is not an admin.
C20_UnmatchedRulesFallThrough ==
    (EnabledInThisTier /\ ~SomeRuleMatches) =>
        flagCall.result =
            IF "rolloutPercentage" \in DOMAIN flagCall.flag
            THEN shouldRolloutToUser(flagCall.flagKey, flagCall.user,
                                     flagCall.flag.rolloutPercentage)
            ELSE TRUE

\* the latest call got as far as the rollout percentage: the flag is enabled,
\* restricts no environment, none of its rules matches the identity, and it
\* has a rolloutPercentage
DecidedByRollout ==
    /\ flagCall.called
    /\ flagCall.flag # UNDEFINED
    /\ flagCall.flag.enabled
    /\ \/ "environments" \notin DOMAIN flagCall.flag
       \/ Len(flagCall.flag.environments) = 0
    /\ ~SomeRuleMatches
    /\ "rolloutPercentage" \in DOMAIN flagCall.flag

\* a call with the key, the identity and the flag definition of the call
\* before it returns what that call returned
RepeatedCallAgrees ==
    (/\ flagCall.called
     /\ flagCall'.called
     /\ flagCall'.flagKey = flagCall.flagKey
     /\ flagCall'.user = flagCall.user
     /\ flagCall'.flag = flagCall.flag)
        => flagCall'.result = flagCall.result

\* C21 as claimed: isEnabled for a flag with rolloutPercentage 0 always
\* returns false and with rolloutPercentage 100 always returns true, and
\* repeated calls with the same flag definition, key and identity return the
\* same boolean.
C21_RolloutEndsAlways ==
    /\ [](  (/\ flagCall.called
             /\ flagCall.flag # UNDEFINED
             /\ "rolloutPercentage" \in DOMAIN flagCall.flag)
                => /\ flagCall.flag.rolloutPercentage = 0 => flagCall.result = FALSE
                   /\ flagCall.flag.rolloutPercentage = 100 => flagCall.result = TRUE)
    /\ [][RepeatedCallAgrees]_vars

\* C21: when the call is decided by the rollout, rolloutPercentage 0 returns
\* false and rolloutPercentage 100 returns true, and a caller without
\* identity gets the decision of the seed 'key:anonymous'; for a fixed flag
\* definition, key and identity, repeated isEnabled calls return the same
\* boolean, whatever calls were made and whatever setFlag and removeFlag did
\* to other keys in between.
C21_RolloutEndsAndRepeats ==
    /\ [](DecidedByRollout =>
            /\ flagCall.flag.rolloutPercentage = 0 => flagCall.result = FALSE
            /\ flagCall.flag.rolloutPercentage = 100 => flagCall.result = TRUE
            /\ flagCall.user = UNDEFINED =>
                flagCall.result =
                    \/ flagCall.flag.rolloutPercentage >= 100
                    \/ /\ flagCall.flag.rolloutPercentage > 0
                       /\ AbsMod100(HashFrom(Int32(0, 0),
                                             flagCall.flagKey \o <<":">> \o Anonymous, 1))
                            < flagCall.flag.rolloutPercentage)
    /\ [][RepeatedCallAgrees]_vars

\* a call decided by a rollout of 100 after setFlag added another key
C21_Witness ==
    /\ DecidedByRollout
    /\ flagCall.flagKey = FlagKeys.email_verification
    /\ flagCall.flag.rolloutPercentage = 100
    /\ flagCall.result = TRUE
    /\ flagWrites = 1
    /\ MapHas(flags, FlagKeys.dark_mode)

\* the decisions for the keys other than key are the same before and after
\* the step
OtherKeysKeepDecision(key) ==
    \A other \in CheckedKeys \ {key}, user \in Identities :
        isEnabled(flags', other, user) = isEnabled(flags, other, user)

\* C22: in every reachable evaluator state isEnabled returns false, for every
\* identity, for every key that is not in the flag map (never defined, or
\* removed and not set again); after setFlag(f) the decision for f.key is
\* made from f alone, and the decisions for the other keys are unchanged.
C22_UnknownKeyIsOffAndSetFlagReplaces ==
    /\ [](\A key \in CheckedKeys, user \in Identities :
            ~MapHas(flags, key) => isEnabled(flags, key, user) = FALSE)
    /\ [](  (flagCall.called /\ flagCall.flag = UNDEFINED) => flagCall.result = FALSE)
    /\ [][\A flag \in WrittenFlags :
            SetFlag(flag) =>
                /\ \A user \in Identities :
                    isEnabled(flags', flag.key, user) = isEnabled(<<flag>>, flag.key, user)
                /\ OtherKeysKeepDecision(flag.key)]_vars
    /\ [][\A key \in RemovedKeys :
            RemoveFlag(key) =>
                /\ ~MapHas(flags', key)
                /\ OtherKeysKeepDecision(key)]_vars

\* setFlag has replaced an enabled email_verification flag that had a rollout
\* of 100 by a disabled one, and the call made after it returned false; the
\* key dark_mode was never defined
C22_Witness ==
    /\ flagWrites = 1
    /\ flagCall.called
    /\ flagCall.flagKey = FlagKeys.email_verification
    /\ flagCall.flag = [key |-> FlagKeys.email_verification, enabled |-> FALSE]
    /\ MapGet(flags, FlagKeys.email_verification) = flagCall.flag
    /\ flagCall.result = FALSE
    /\ ~MapHas(flags, FlagKeys.dark_mode)
    /\ \A user \in Identities : ~isEnabled(flags, FlagKeys.dark_mode, user)

\* the bucket of the latest call: Math.abs(hash) % 100 for the seed
\* 'key:id', or 'key:anonymous' without an identity or with an empty id
BucketOfCall ==
    LET identifier == IF flagCall.user = UNDEFINED \/ flagCall.user.id = EmptyString
                      THEN Anonymous ELSE flagCall.user.id
    IN  AbsMod100(HashFrom(Int32(0, 0), flagCall.flagKey \o <<":">> \o identifier, 1))

\* C30: the rollout bucket computed from the seed 'key:id' is an integer in
\* 0..99 for every seed, also when the 32-bit hash is negative or equals
\* -2^31; for a fixed key and identity with no matching userRule the decision
\* is monotone in rolloutPercentage (true at p, it is true at every p' >= p),
\* every percentage >= 100 enables all identities and every percentage <= 0
\* enables none.
C30_BucketInRangeAndMonotone ==
    /\ []((flagCall.called /\ flagCall.flag # UNDEFINED) =>
            /\ BucketOfCall \in 0..99
            /\ flagCall.result =
                (/\ flagCall.flag.rolloutPercentage > 0
                 /\ \/ flagCall.flag.rolloutPercentage >= 100
                    \/ BucketOfCall < flagCall.flag.rolloutPercentage)
            /\ flagCall.flag.rolloutPercentage >= 100 => flagCall.result = TRUE
            /\ flagCall.flag.rolloutPercentage <= 0 => flagCall.result = FALSE)
    /\ [][(/\ flagCall.called
           /\ flagCall'.called
           /\ flagCall'.flagKey = flagCall.flagKey
           /\ flagCall'.user = flagCall.user
           /\ flagCall.flag # UNDEFINED
           /\ flagCall'.flag # UNDEFINED
           /\ flagCall'.flag.rolloutPercentage >= flagCall.flag.rolloutPercentage
           /\ flagCall.result = TRUE)
              => flagCall'.result = TRUE]_vars

\* the identity whose hash is -2^31 has bucket 48: left out at a rollout of
\* 48 or below, it is taken in by the call made after setFlag raised the
\* rollout to 49
C30_Witness ==
    /\ flagCall.called
    /\ flagCall.user # UNDEFINED
    /\ flagCall.user.id = <<"i", "x", "v", "t", "v", "z", "x">>
    /\ HashFrom(Int32(0, 0), flagCall.flagKey \o <<":">> \o flagCall.user.id, 1)
        = Int32(Word \div 2, 0)
    /\ BucketOfCall = 48
    /\ flagWrites = 1
    /\ flagCall.flag.rolloutPercentage = 49
    /\ flagCall.result = TRUE

----------------------------------------------------------------------------
(* Claims about the helpers of BaseService *)

\* C23: requireUser returns the identity of the service, or fails with
\* 'User authentication required' when the service has none; requireRole(role)
\* fails with that same error when there is no identity, fails with 'Role
\* required' when the role of the identity is absent or is another one, and
\* returns normally otherwise; hasRole(role) answers a boolean, true exactly
\* when the service has an identity whose role is `role`.
C23_RoleHelpersFollowIdentity ==
    serviceCall.called =>
        LET identity == userService.currentUser
            result == serviceCall.result
            authenticationRequired ==
                /\ result.outcome = "throw"
                /\ result.error.name = "User authentication required"
        IN  /\ serviceCall.op = "requireUser" =>
                IF identity = NoUser THEN authenticationRequired
                ELSE result.outcome = "return" /\ result.value = identity
            /\ serviceCall.op = "requireRole" =>
                IF identity = NoUser THEN authenticationRequired
                ELSE IF Roles[identity] = UNDEFINED \/ Roles[identity] # serviceCall.role
                THEN /\ result.outcome = "throw"
                     /\ result.error = Err("Role required", serviceCall.role.s)
                ELSE result.outcome = "return"
            /\ serviceCall.op = "hasRole" =>
                /\ result \in BOOLEAN
                /\ result <=> (identity # NoUser /\ Roles[identity] = serviceCall.role)

\* requireRole('admin') on the service of an identity whose role was never set
C23_Witness ==
    /\ serviceCall.called
    /\ serviceCall.op = "requireRole"
    /\ userService.currentUser = "carol"
    /\ serviceCall.role = Str("admin")
    /\ serviceCall.result.outcome = "throw"
    /\ serviceCall.result.error.name = "Role required"

\* C24: when getMe calls requireUser on a service without identity while a
\* request is handled, the error reaches errorHandler and the response is an
\* authorization failure (401 or 403), not a 500.
C24_MissingIdentityIsAuthorizationFailure ==
    (/\ serviceCall.called
     /\ serviceCall.op = "getMe"
     /\ serviceCall.result.outcome = "throw"
     /\ serviceCall.result.error.message = "User authentication required")
    => serviceCall.response.status \in {401, 403}

\* the data of the pages p, p + 1, ... up to the last page of the array, one
\* behind the other
RECURSIVE PagesFrom(_, _, _)
PagesFrom(array, limit, p) ==
    LET paged == applyPagination(array, [page |-> p, limit |-> limit]) IN
    IF p > paged.pagination.pages THEN << >>
    ELSE paged.data \o PagesFrom(array, limit, p + 1)

\* C25: for page >= 1 and limit >= 1, applyPagination returns as data the
\* items at the 0-based positions from (page - 1) * limit up to, not
\* including, min(page * limit, total), in their order; total is the number of
\* items and pages is ceil(total / limit), 0 for no items; a page beyond the
\* last one gives an empty slice; the slices of the pages 1..pages, one behind
\* the other, are the input.
C25_PaginationSlices ==
    (serviceCall.called /\ serviceCall.op = "applyPagination") =>
        LET given == serviceCall.given
            page == serviceCall.options.page
            limit == serviceCall.options.limit
            data == serviceCall.result.data
            pagination == serviceCall.result.pagination
            total == Len(given)
            first == (page - 1) * limit
            end == IF page * limit < total THEN page * limit ELSE total
        IN  /\ pagination.total = total
            /\ pagination.page = page /\ pagination.limit = limit
            /\ pagination.pages * limit >= total
            /\ (pagination.pages - 1) * limit < total
            /\ total = 0 => pagination.pages = 0
            /\ Len(data) = (IF end > first THEN end - first ELSE 0)
            /\ \A k \in 1..Len(data) : data[k] = given[first + k]
            /\ page > pagination.pages => data = << >>
            /\ PagesFrom(given, limit, 1) = given

\* the second of two pages holds the one item left, and the page behind it
\* is empty
C25_Witness ==
    /\ serviceCall.called
    /\ serviceCall.op = "applyPagination"
    /\ Len(serviceCall.given) = 3
    /\ serviceCall.options = [page |-> 2, limit |-> 2]
    /\ serviceCall.result.data = <<serviceCall.given[3]>>
    /\ serviceCall.result.pagination.pages = 2
    /\ serviceCall.given[1] # serviceCall.given[3]
    /\ applyPagination(serviceCall.given, [page |-> 3, limit |-> 2]).data = << >>

\* C26: applyPagination, applySorting and applyTextSearch are pure over their
\* input: after a call the array the caller handed in holds the elements it
\* held before the call, in the same order.
C26_ListHelpersLeaveInput ==
    (/\ serviceCall.called
     /\ serviceCall.op \in {"applyPagination", "applySorting", "applyTextSearch"})
    => items = serviceCall.given

\* the string contains the term when letters that differ in case only count
\* as the same
ContainsIgnoringCase(string, term) ==
    \E at \in 0..(Len(string) - Len(term)) :
        \A k \in 1..Len(term) :
            toLowerCase(<<string[at + k]>>) = toLowerCase(<<term[k]>>)

\* C27: applyTextSearch with an empty term returns the items unchanged; with
\* another term it returns exactly the items of which at least one listed
\* field, in its string form, contains the term when case is ignored, in the
\* order they have in the input.
C27_TextSearchSelects ==
    (serviceCall.called /\ serviceCall.op = "applyTextSearch") =>
        LET given == serviceCall.given
            term == serviceCall.searchTerm
            fields == serviceCall.searchFields
            result == serviceCall.result
            matching ==
                {i \in DOMAIN given :
                    \E f \in DOMAIN fields :
                        ContainsIgnoringCase(StringOf(given[i], fields[f]), term)}
            \* the k-th matching position, counted from the front
            nth(k) == CHOOSE i \in matching : Cardinality({j \in matching : j <= i}) = k
        IN  IF term = EmptyString THEN result = given
            ELSE /\ Len(result) = Cardinality(matching)
                 /\ \A k \in 1..Len(result) : result[k] = given[nth(k)]

\* 'H' over title and content finds 'hot' and 'Ham' and passes over 'Zoo'
C27_Witness ==
    /\ serviceCall.called
    /\ serviceCall.op = "applyTextSearch"
    /\ serviceCall.searchTerm = <<"H">>
    /\ serviceCall.searchFields = <<"title", "content">>
    /\ Len(serviceCall.given) = 3
    /\ serviceCall.given[1].title = <<"e", "a", "t">>
    /\ serviceCall.given[2].title = <<"Z", "o", "o">>
    /\ serviceCall.given[3].title = <<"T", "e", "a">>
    /\ serviceCall.result = <<serviceCall.given[1], serviceCall.given[3]>>

----------------------------------------------------------------------------
(* Claims about the identity of a service *)

\* the instance a singleton registration of the token holds in the registry of
\* the container, if it holds a constructed one
CachedService(c, token) ==
    LET registration == Lookup(RegistryOf(Store, c), token) IN
    IF registration # Absent /\ RegistrationSingleton(registration)
        /\ RegistrationInstance(registration).tag = "object"
    THEN RegistrationInstance(registration)
    ELSE UNDEFINED

\* C28: a singleton service takes its identity once, when it is constructed,
\* from the container whose resolve constructs it; no later call (setUser on
\* that container, withUser, another resolve) changes the identity of an
\* instance, and a resolve of the token through any container that shares the
\* registration returns the cached instance and constructs nothing, so
\* requireUser on what it returns reports the identity of the construction,
\* whatever the identity of the resolving container.
C28_SingletonKeepsFirstIdentity ==
    [][/\ \A i \in DOMAIN objects :
            /\ i \in DOMAIN objects'
            /\ objects'[i] = objects[i]
       /\ \A c \in Live, token \in {SERVICE_TOKENS.USER_SERVICE, "PostService"} :
            LET resolved == ResolveOp(Store, c, token)
                cached == CachedService(c, token)
            IN  IF cached # UNDEFINED
                THEN /\ resolved.outcome = "return"
                     /\ resolved.value = cached
                     /\ resolved.store = Store
                     /\ requireUser(resolved.store.objects[resolved.value.id])
                            = requireUser(objects'[cached.id])
                ELSE (resolved.outcome = "return" /\ resolved.invoked = 1) =>
                        /\ resolved.value = ObjectRef(Len(objects) + 1)
                        /\ resolved.store.objects[resolved.value.id].currentUser
                                = ContextOf(Store, c).user]_vars

\* the user service was built through the root while it carried one identity;
\* setUser has moved the root on to the other identity and a fork carries
\* that other identity too, and a resolve through either still reports the
\* identity of the construction
C28_Witness ==
    /\ Len(containers) = 2
    /\ containers[2].registry = containers[1].registry
    /\ CachedService(2, SERVICE_TOKENS.USER_SERVICE) # UNDEFINED
    /\ LET resolved == ResolveOp(Store, 2, SERVICE_TOKENS.USER_SERVICE)
           viaRoot == ResolveOp(Store, 1, SERVICE_TOKENS.USER_SERVICE)
           reported == requireUser(objects[resolved.value.id])
       IN  /\ viaRoot.value = resolved.value
           /\ reported.outcome = "return"
           /\ reported.value \in Users
           /\ ContextOf(Store, 1).user \in Users \ {reported.value}
           /\ ContextOf(Store, 2).user \in Users \ {reported.value}

----------------------------------------------------------------------------
(* Claims about authMiddleware *)

\* next() was called for the request: its handler is running or has answered
RanNext(r) ==
    \/ requests[r].pc \in {"handler", "querying"}
    \/ requests[r].pc = "done" /\ requests[r].status \in {"ok", "error"}

\* the request failed with an UnauthorizedError of that message
FailedUnauthorized(r, message) ==
    /\ requests[r].pc = "done"
    /\ requests[r].status = "unauthorized"
    /\ requests[r].body = message

\* C29: next runs only after validateSession returned a user and
\* container.setUser was called with that user, so the user service the
\* handler resolves first is built with that identity; when the database
\* handle is null or the session is invalid or expired, next and setUser are
\* never called and the request fails with UnauthorizedError; the catch of the
\* middleware throws an UnauthorizedError on unchanged and replaces every
\* other error by UnauthorizedError('Authentication failed').
C29_NextOnlyAfterSetUser ==
    /\ [](\A r \in RequestIds :
            Started(r) =>
                LET c == requests[r].container
                    service == UserServiceOf(r).instance
                IN  /\ RanNext(r) =>
                        /\ requests[r].user \in Users
                        /\ requests[r].user = requests[r].session
                        /\ ContextOf(Store, c).user = requests[r].user
                    /\ service # UNDEFINED =>
                        /\ RanNext(r)
                        /\ objects[service.id].currentUser = requests[r].user
                    /\ (requests[r].pc = "done" /\ requests[r].status = "unauthorized") =>
                        /\ requests[r].user = NoUser
                        /\ ContextOf(Store, c).user = NoUser
                        /\ service = UNDEFINED
                    /\ (RegistryOf(Store, c)[SERVICE_TOKENS.DATABASE].instance = NULL
                            /\ requests[r].pc # "auth") =>
                        FailedUnauthorized(r, "Authentication service unavailable"))
    /\ [](\A class \in DOMAIN AppErrors \cup {"Error", "TypeError"} :
            LET thrown == authMiddlewareCatch([class |-> class, message |-> "message"]) IN
            /\ thrown.class = "UnauthorizedError"
            /\ thrown.message =
                    IF class = "UnauthorizedError" THEN "message" ELSE "Authentication failed")
    /\ [][\A r \in RequestIds :
            /\ (AuthMiddleware(r) /\ getDatabase(Store, requests[r].container).outcome = "throw")
                    => FailedUnauthorized(r, "Authentication failed")'
            /\ SessionValidated(r, NoUser) =>
                    /\ FailedUnauthorized(r, "Invalid or expired session")'
                    /\ contexts' = contexts
            /\ \A user \in Users :
                    SessionValidated(r, user) =>
                        /\ requests'[r].pc = "handler"
                        /\ requests'[r].user = user
                        /\ ContextOf(Store', requests[r].container).user = user]_vars

\* one request was answered for the identity of its session by a user service
\* built with it, while the other, whose session was found invalid or
\* expired, failed before next
C29_Witness ==
    /\ requests[1].pc = "done"
    /\ requests[1].status = "ok"
    /\ requests[1].user = "alice"
    /\ requests[1].body = "alice"
    /\ objects[UserServiceOf(1).instance.id].currentUser = "alice"
    /\ requests[2].session = "bob"
    /\ FailedUnauthorized(2, "Invalid or expired session")
    /\ ContextOf(Store, requests[2].container).user = NoUser

====
